---- MODULE Spec2Model ----
(***************************************************************************)
(* Model of the agent run-loop (startProjectAgent in agent-runner) and of  *)
(* the shell process runner (executeShellCommand in command-executor) of   *)
(* ai-support-agent-cli.                                                   *)
(*                                                                         *)
(* Node runs every callback to its next await without interruption, so    *)
(* each action below is one such run: a timer callback, or the            *)
(* continuation of an async function after the call it awaits has         *)
(* settled (returned or thrown).                                           *)
(***************************************************************************)
EXTENDS Integers, Sequences, FiniteSets, TLC

\* ------------------------------------------------------------------ bounds

\* Poll cycles that can be told apart at one moment (slots are reused).
MaxCycles == 2
\* Longest list getPendingCommands returns.
MaxCmds == 2
\* Heartbeat calls in flight at once (sendHeartbeat has no single-flight flag).
MaxHeartbeats == 2
\* The cap on captured output, scaled down (the program's value is a byte count
\* imported from ./constants).
MAX_OUTPUT_SIZE == 3
\* Largest chunk a 'data' event delivers.
MaxChunk == 2

\* ------------------------------------------------------------------- state

VARIABLES
    regState,        \* registerAndStart: "pending" (register awaited), "ok", "failed"
    heartbeatTimer,  \* "null", "active" (setInterval handle), "cleared" (after clearInterval)
    pollTimer,       \* same
    processing,      \* the single-flight flag
    hbInFlight,      \* client.heartbeat calls awaited by sendHeartbeat
    cycles,          \* pollCommands invocations that passed the flag check
    inflight,        \* calls of poll cycles that have been issued and have not settled
    stopCalls,       \* stop() calls so far: 0, 1, or 2 for two and more
    lastOp           \* the callback that ran last: "PollSkip" (a poll tick that
                     \* found the flag set), "Stop", "HeartbeatThrows", or "other"

agentVars == <<regState, heartbeatTimer, pollTimer, processing, hbInFlight,
               cycles, inflight, stopCalls, lastOp>>

VARIABLES
    proc,            \* the child process: "none", "running" (spawned), "closed"
    resolved,        \* the latch of executeShellCommand's promise executor
    timer,           \* the timeout: "none", "armed", "fired", "cleared"
    kills,           \* proc.kill('SIGKILL') calls
    resolveCalls,    \* calls of the promise's resolve
    result,          \* the CommandResult the promise settled with
    errorFired,      \* the process has emitted 'error'
    stdout,          \* length of the captured stdout
    stderr,          \* length of the captured stderr
    outputSize,      \* bytes seen on both streams
    first            \* which of timeout, close, error came first, and its result

shellVars == <<proc, resolved, timer, kills, resolveCalls, result, errorFired,
               stdout, stderr, outputSize, first>>

VARIABLES
    cmdType,         \* executeCommand: the type of the command being executed
    payload,         \* its payload
    pc,              \* where the handler stands: "idle", "entered", the call it
                     \* is about to make, or "done"
    filePath,        \* the path resolveAndValidatePath handed to the handler
    osCalls,         \* calls made to the file system and the process table so far
    listing,         \* what readdir returned and which entries lstat failed on
    outcome          \* how executeCommand's promise settled

execVars == <<cmdType, payload, pc, filePath, osCalls, listing, outcome>>

VARIABLES
    started,         \* startAgent: number of project agents started (0: not yet)
    agents,          \* the project agents, each with its own timers and flag
    handlers,        \* signals the shutdown handler is registered on
    exited           \* process.exit has been called

fleetVars == <<started, agents, handlers, exited>>

VARIABLES
    hostEnv,         \* process.env as the last spawn found it
    childEnv         \* the env option that spawn was given

envVars == <<hostEnv, childEnv>>

VARIABLES
    launch           \* what startAgent was given and what it did

launchVars == <<launch>>

VARIABLES
    host,            \* what the os module reports: load, CPUs, memory
    reported         \* the SystemInfo of the last heartbeat sent

infoVars == <<host, reported>>

VARIABLES
    planted          \* the symbolic links another command has put in place

fsVars == <<planted>>

vars == <<agentVars, shellVars, execVars, fleetVars, envVars, launchVars, infoVars,
          fsVars>>

Slots == 1..MaxCycles

CmdIds == 1..MaxCmds

RECURSIVE SeqsUpTo(_)
\* Lists of command ids of length at most n.
SeqsUpTo(n) ==
    IF n = 0 THEN {<<>>}
    ELSE LET shorter == SeqsUpTo(n - 1)
         IN shorter \cup {Append(s, c) : s \in {t \in shorter : Len(t) = n - 1},
                                         c \in CmdIds}

\* What getPendingCommands can return: any list of distinct commands, in any order.
PendingLists ==
    {s \in SeqsUpTo(MaxCmds) : \A i, j \in 1..Len(s) : i # j => s[i] # s[j]}

\* A call a poll cycle has issued and awaits. cmd: the commandId passed (0 for
\* getPendingCommands); res: the CommandResult.success passed to submitResult
\* ("ok", "fail"), "-" for the other calls.
Call(c, op, cmd, res) == [cyc |-> c, op |-> op, cmd |-> cmd, res |-> res]

\* A settled call as the cycle's log keeps it. out: "ok" (returned) or "throw".
\* For executeCommand, res is the success of the CommandResult it returned.
Entry(op, cmd, res, out) == [op |-> op, cmd |-> cmd, res |-> res, out |-> out]

UnusedCycle == [st |-> "unused", pending |-> <<>>, i |-> 0, log |-> <<>>]

\* The two submitResult call sites: the one after the execution and the one in
\* the per-command catch block.
SubmitOps == {"submitResult", "fallbackSubmit"}

\* A CommandResult: success, data (length of the text, -1 when absent), whether
\* the truncation marker was appended, and which error message it carries.
Result(success, data, marker, error) ==
    [success |-> success, data |-> data, marker |-> marker, error |-> error]

\* The promise has not settled.
NoResult == Result(FALSE, -1, FALSE, "unsettled")

\* ------------------------------------------------- payload values, results

\* A payload field is `unknown`: it may be missing or of any type.  A number
\* is kept in halves (n = 3 is 1.5) so that fractions have a place.
Undefined == [kind |-> "undefined"]

Null == [kind |-> "null"]

Num(n) == [kind |-> "number", nan |-> FALSE, n |-> n]

NaN == [kind |-> "number", nan |-> TRUE, n |-> 0]

\* A path string: its components; "." first makes it relative.
PathStr(comps) == [kind |-> "string", empty |-> comps = <<>>, comps |-> comps]

\* A command string, by the blocked patterns it matches; hits = {} is a
\* harmless command, empty = TRUE the string ''.
CmdStr(empty, hits) == [kind |-> "string", empty |-> empty, hits |-> hits]

\* A signal name.
SigStr(name) == [kind |-> "string", empty |-> name = "", name |-> name]

\* A content string of the given length.
Content(len) == [kind |-> "string", empty |-> len = 0, length |-> len]

\* value ?? fallback
Coalesce(value, fallback) ==
    IF value.kind \in {"null", "undefined"} THEN fallback ELSE value

parseString(value) ==
    IF value.kind = "string" /\ ~value.empty THEN value ELSE Null

parseNumber(value) ==
    IF value.kind = "number" /\ ~value.nan THEN value ELSE Null

NoPayload ==
    [command |-> Undefined, timeout |-> Undefined, cwd |-> Undefined,
     path |-> Undefined, content |-> Undefined, createDirectories |-> FALSE,
     pid |-> Undefined, signal |-> Undefined]

\* The data of a CommandResult: a text (named by its kind) or a listing.
NoData == [text |-> "", items |-> 0, degraded |-> 0, truncated |-> FALSE, total |-> 0]

Text(t) == [NoData EXCEPT !.text = t]

CommandResult(success, data, error) ==
    [success |-> success, data |-> data, error |-> error]

Failure(error) == CommandResult(FALSE, NoData, error)

\* How an async function settles.
Pending == [kind |-> "pending", res |-> Failure("")]

Return(res) == [kind |-> "return", res |-> res]

Throw(message) == [kind |-> "throw", res |-> Failure(message)]

\* A fraction, kept as numerator over denominator.
Ratio(num, den) == [num |-> num, den |-> den]

\* No heartbeat has been sent.
NoInfo == [sent |-> FALSE, cpuUsage |-> Ratio(0, 1), memoryUsage |-> Ratio(0, 1)]

\* startAgent has not been called.
NoLaunch ==
    [called |-> FALSE, options |-> <<>>, config |-> <<>>, env |-> <<>>,
     exitCode |-> -1, projects |-> <<>>]

\* No readdir has returned yet.
NoListing == [n |-> -1, failed |-> {}]

Init ==
    /\ cmdType = "none"
    /\ payload = NoPayload
    /\ pc = "idle"
    /\ filePath = <<>>
    /\ osCalls = <<>>
    /\ listing = NoListing
    /\ outcome = Pending
    /\ hostEnv = <<>>
    /\ childEnv = <<>>
    /\ launch = NoLaunch
    /\ host = [load |-> 0, cpus |-> 1, total |-> 1, free |-> 1]
    /\ reported = NoInfo
    /\ planted = {}
    /\ started = 0
    /\ agents = <<>>
    /\ handlers = {}
    /\ exited = FALSE
    /\ regState = "pending"
    /\ heartbeatTimer = "null"
    /\ pollTimer = "null"
    /\ processing = FALSE
    /\ hbInFlight = 0
    /\ cycles = [c \in Slots |-> UnusedCycle]
    /\ inflight = {}
    /\ stopCalls = 0
    /\ lastOp = "other"
    /\ proc = "none"
    /\ resolved = FALSE
    /\ timer = "none"
    /\ kills = 0
    /\ resolveCalls = 0
    /\ result = NoResult
    /\ errorFired = FALSE
    /\ stdout = 0
    /\ stderr = 0
    /\ outputSize = 0
    /\ first = [ev |-> "none", res |-> NoResult]

\* ------------------------------------------------------------ registration

\* client.register resolved: both timers are created and the first heartbeat sent.
RegisterReturns ==
    /\ regState = "pending"
    /\ regState' = "ok"
    /\ heartbeatTimer' = "active"
    /\ hbInFlight' = hbInFlight + 1
    /\ pollTimer' = "active"
    /\ lastOp' = "other"
    /\ UNCHANGED <<processing, cycles, inflight, stopCalls>>
    /\ UNCHANGED <<shellVars, execVars, fleetVars, envVars, launchVars, infoVars, fsVars>>

\* Faulty variant of RegisterThrows: the catch block does not return, so the
\* timers are created after a failed registration.
RegisterThrowsNoReturn ==
    /\ regState = "pending"
    /\ regState' = "failed"
    /\ heartbeatTimer' = "active"
    /\ hbInFlight' = hbInFlight + 1
    /\ pollTimer' = "active"
    /\ lastOp' = "other"
    /\ UNCHANGED <<processing, cycles, inflight, stopCalls>>
    /\ UNCHANGED <<shellVars, execVars, fleetVars, envVars, launchVars, infoVars, fsVars>>

\* client.register rejected: logged, and registerAndStart returns.
RegisterThrows ==
    /\ regState = "pending"
    /\ regState' = "failed"
    /\ lastOp' = "other"
    /\ UNCHANGED <<heartbeatTimer, pollTimer, processing, hbInFlight, cycles,
                   inflight, stopCalls>>
    /\ UNCHANGED <<shellVars, execVars, fleetVars, envVars, launchVars, infoVars, fsVars>>

\* --------------------------------------------------------------- heartbeat

\* The heartbeat interval fires: sendHeartbeat calls client.heartbeat.
HeartbeatTick ==
    /\ heartbeatTimer = "active"
    /\ hbInFlight < MaxHeartbeats
    /\ hbInFlight' = hbInFlight + 1
    /\ lastOp' = "other"
    /\ UNCHANGED <<regState, heartbeatTimer, pollTimer, processing, cycles,
                   inflight, stopCalls>>
    /\ UNCHANGED <<shellVars, execVars, fleetVars, envVars, launchVars, infoVars, fsVars>>

HeartbeatReturns ==
    /\ hbInFlight > 0
    /\ hbInFlight' = hbInFlight - 1
    /\ lastOp' = "other"
    /\ UNCHANGED <<regState, heartbeatTimer, pollTimer, processing, cycles,
                   inflight, stopCalls>>
    /\ UNCHANGED <<shellVars, execVars, fleetVars, envVars, launchVars, infoVars, fsVars>>

\* Faulty variant of HeartbeatThrows: a failed heartbeat cancels its timer.
HeartbeatThrowsStopsTimer ==
    /\ hbInFlight > 0
    /\ hbInFlight' = hbInFlight - 1
    /\ heartbeatTimer' = "cleared"
    /\ lastOp' = "HeartbeatThrows"
    /\ UNCHANGED <<regState, pollTimer, processing, cycles, inflight, stopCalls>>
    /\ UNCHANGED <<shellVars, execVars, fleetVars, envVars, launchVars, infoVars, fsVars>>

\* The rejection is caught and logged as a warning.
HeartbeatThrows ==
    /\ hbInFlight > 0
    /\ hbInFlight' = hbInFlight - 1
    /\ lastOp' = "HeartbeatThrows"
    /\ UNCHANGED <<regState, heartbeatTimer, pollTimer, processing, cycles,
                   inflight, stopCalls>>
    /\ UNCHANGED <<shellVars, execVars, fleetVars, envVars, launchVars, infoVars, fsVars>>

\* -------------------------------------------------------------- poll cycle

\* The slot a new cycle is kept in: the first one holding no running cycle.
FreeSlots == {s \in Slots : cycles[s].st # "run"}

\* The cycle passes the flag check, sets the flag and calls getPendingCommands.
StartCycle ==
    /\ FreeSlots # {}
    /\ LET s == CHOOSE x \in FreeSlots : \A y \in FreeSlots : x <= y
       IN /\ cycles' = [cycles EXCEPT ![s] = [UnusedCycle EXCEPT !.st = "run"]]
          /\ inflight' = inflight \cup {Call(s, "getPendingCommands", 0, "-")}
    /\ processing' = TRUE
    /\ lastOp' = "other"

\* Faulty variant of PollTick: the flag is not tested.
PollTickNoGuard ==
    /\ pollTimer = "active"
    /\ StartCycle
    /\ UNCHANGED <<regState, heartbeatTimer, pollTimer, hbInFlight, stopCalls>>
    /\ UNCHANGED <<shellVars, execVars, fleetVars, envVars, launchVars, infoVars, fsVars>>

\* Faulty variant of PollTick: the flag test sits inside the try block, so the
\* finally block clears the flag of a skipped tick.
PollTickFinally ==
    /\ pollTimer = "active"
    /\ IF processing
       THEN /\ processing' = FALSE
            /\ lastOp' = "PollSkip"
            /\ UNCHANGED <<cycles, inflight>>
       ELSE StartCycle
    /\ UNCHANGED <<regState, heartbeatTimer, pollTimer, hbInFlight, stopCalls>>
    /\ UNCHANGED <<shellVars, execVars, fleetVars, envVars, launchVars, infoVars, fsVars>>

\* The poll interval fires: pollCommands returns at once when the flag is set.
PollTick ==
    /\ pollTimer = "active"
    /\ IF processing
       THEN /\ lastOp' = "PollSkip"
            /\ UNCHANGED <<processing, cycles, inflight>>
       ELSE StartCycle
    /\ UNCHANGED <<regState, heartbeatTimer, pollTimer, hbInFlight, stopCalls>>
    /\ UNCHANGED <<shellVars, execVars, fleetVars, envVars, launchVars, infoVars, fsVars>>

\* The cycle leaves the outer try: the finally block clears the flag.
FinishCycle(c, call, entry) ==
    /\ cycles' = [cycles EXCEPT ![c].st = "done",
                                ![c].log = Append(cycles[c].log, entry)]
    /\ inflight' = inflight \ {call}
    /\ processing' = FALSE

\* The awaited call settles and the cycle issues the call `next`.
Continue(c, call, entry, next) ==
    /\ cycles' = [cycles EXCEPT ![c].log = Append(cycles[c].log, entry)]
    /\ inflight' = (inflight \ {call}) \cup {next}
    /\ UNCHANGED processing

\* The for loop moves to the next command of the list, or ends.
NextCommand(c, call, entry) ==
    LET cy == cycles[c]
    IN IF cy.i < Len(cy.pending)
       THEN /\ cycles' = [cycles EXCEPT ![c].i = cy.i + 1,
                                        ![c].log = Append(cy.log, entry)]
            /\ inflight' = (inflight \ {call})
                              \cup {Call(c, "getCommand", cy.pending[cy.i + 1], "-")}
            /\ UNCHANGED processing
       ELSE FinishCycle(c, call, entry)

\* The call the cycle in slot c awaits, when it is `op`.
Awaited(c, op) == {k \in inflight : k.cyc = c /\ k.op = op}

PendingReturns(c) ==
    /\ \E k \in Awaited(c, "getPendingCommands") : \E list \in PendingLists :
         LET e == Entry(k.op, 0, "-", "ok")
         IN IF list = <<>>
            THEN FinishCycle(c, k, e)
            ELSE /\ cycles' = [cycles EXCEPT ![c].pending = list, ![c].i = 1,
                                             ![c].log = Append(cycles[c].log, e)]
                 /\ inflight' = (inflight \ {k})
                                   \cup {Call(c, "getCommand", list[1], "-")}
                 /\ UNCHANGED processing
    /\ lastOp' = "other"
    /\ UNCHANGED <<regState, heartbeatTimer, pollTimer, hbInFlight, stopCalls>>
    /\ UNCHANGED <<shellVars, execVars, fleetVars, envVars, launchVars, infoVars, fsVars>>

\* Faulty variant of PendingThrows: the flag is cleared at the end of the try
\* block and not in a finally block, so a failed fetch leaves it set.
PendingThrowsKeepsFlag(c) ==
    /\ \E k \in Awaited(c, "getPendingCommands") :
         /\ cycles' = [cycles EXCEPT ![c].st = "done",
                          ![c].log = Append(cycles[c].log, Entry(k.op, 0, "-", "throw"))]
         /\ inflight' = inflight \ {k}
         /\ UNCHANGED processing
    /\ lastOp' = "other"
    /\ UNCHANGED <<regState, heartbeatTimer, pollTimer, hbInFlight, stopCalls>>
    /\ UNCHANGED <<shellVars, execVars, fleetVars, envVars, launchVars, infoVars, fsVars>>

\* The outer catch logs the polling error.
PendingThrows(c) ==
    /\ \E k \in Awaited(c, "getPendingCommands") :
         FinishCycle(c, k, Entry(k.op, 0, "-", "throw"))
    /\ lastOp' = "other"
    /\ UNCHANGED <<regState, heartbeatTimer, pollTimer, hbInFlight, stopCalls>>
    /\ UNCHANGED <<shellVars, execVars, fleetVars, envVars, launchVars, infoVars, fsVars>>

GetCommandReturns(c) ==
    /\ \E k \in Awaited(c, "getCommand") :
         Continue(c, k, Entry(k.op, k.cmd, "-", "ok"),
                  Call(c, "executeCommand", k.cmd, "-"))
    /\ lastOp' = "other"
    /\ UNCHANGED <<regState, heartbeatTimer, pollTimer, hbInFlight, stopCalls>>
    /\ UNCHANGED <<shellVars, execVars, fleetVars, envVars, launchVars, infoVars, fsVars>>

\* Faulty variant of GetCommandThrows: the catch block only logs.
GetCommandThrowsNoSubmit(c) ==
    /\ \E k \in Awaited(c, "getCommand") :
         NextCommand(c, k, Entry(k.op, k.cmd, "-", "throw"))
    /\ lastOp' = "other"
    /\ UNCHANGED <<regState, heartbeatTimer, pollTimer, hbInFlight, stopCalls>>
    /\ UNCHANGED <<shellVars, execVars, fleetVars, envVars, launchVars, infoVars, fsVars>>

\* The per-command catch submits {success: false, error: message}.
GetCommandThrows(c) ==
    /\ \E k \in Awaited(c, "getCommand") :
         Continue(c, k, Entry(k.op, k.cmd, "-", "throw"),
                  Call(c, "fallbackSubmit", k.cmd, "fail"))
    /\ lastOp' = "other"
    /\ UNCHANGED <<regState, heartbeatTimer, pollTimer, hbInFlight, stopCalls>>
    /\ UNCHANGED <<shellVars, execVars, fleetVars, envVars, launchVars, infoVars, fsVars>>

\* Faulty variant of ExecuteReturns: submitResult is not awaited, the loop goes
\* on to the next command at once.
ExecuteReturnsNoAwait(c) ==
    /\ \E k \in Awaited(c, "executeCommand") : \E r \in {"ok", "fail"} :
         LET cy == cycles[c]
             sub == Call(c, "submitResult", k.cmd, r)
         IN /\ cy.i < Len(cy.pending)
            /\ cycles' = [cycles EXCEPT ![c].i = cy.i + 1,
                             ![c].log = Append(cy.log, Entry(k.op, k.cmd, r, "ok"))]
            /\ inflight' = (inflight \ {k})
                  \cup {sub, Call(c, "getCommand", cy.pending[cy.i + 1], "-")}
            /\ UNCHANGED processing
    /\ lastOp' = "other"
    /\ UNCHANGED <<regState, heartbeatTimer, pollTimer, hbInFlight, stopCalls>>
    /\ UNCHANGED <<shellVars, execVars, fleetVars, envVars, launchVars, infoVars, fsVars>>

\* executeCommand catches every fault of its handlers and returns a CommandResult,
\* successful or not; the cycle submits it.
ExecuteReturns(c) ==
    /\ \E k \in Awaited(c, "executeCommand") : \E r \in {"ok", "fail"} :
         Continue(c, k, Entry(k.op, k.cmd, r, "ok"),
                  Call(c, "submitResult", k.cmd, r))
    /\ lastOp' = "other"
    /\ UNCHANGED <<regState, heartbeatTimer, pollTimer, hbInFlight, stopCalls>>
    /\ UNCHANGED <<shellVars, execVars, fleetVars, envVars, launchVars, infoVars, fsVars>>

\* Faulty variant of SubmitReturns: something after the submission throws, and
\* the catch block submits a failure for a result that was delivered.
SubmitReturnsThenCatch(c) ==
    /\ \E k \in Awaited(c, "submitResult") :
         Continue(c, k, Entry(k.op, k.cmd, k.res, "ok"),
                  Call(c, "fallbackSubmit", k.cmd, "fail"))
    /\ lastOp' = "other"
    /\ UNCHANGED <<regState, heartbeatTimer, pollTimer, hbInFlight, stopCalls>>
    /\ UNCHANGED <<shellVars, execVars, fleetVars, envVars, launchVars, infoVars, fsVars>>

SubmitReturns(c) ==
    /\ \E k \in Awaited(c, "submitResult") :
         NextCommand(c, k, Entry(k.op, k.cmd, k.res, "ok"))
    /\ lastOp' = "other"
    /\ UNCHANGED <<regState, heartbeatTimer, pollTimer, hbInFlight, stopCalls>>
    /\ UNCHANGED <<shellVars, execVars, fleetVars, envVars, launchVars, infoVars, fsVars>>

\* The per-command catch submits {success: false, error: message}.
SubmitThrows(c) ==
    /\ \E k \in Awaited(c, "submitResult") :
         Continue(c, k, Entry(k.op, k.cmd, k.res, "throw"),
                  Call(c, "fallbackSubmit", k.cmd, "fail"))
    /\ lastOp' = "other"
    /\ UNCHANGED <<regState, heartbeatTimer, pollTimer, hbInFlight, stopCalls>>
    /\ UNCHANGED <<shellVars, execVars, fleetVars, envVars, launchVars, infoVars, fsVars>>

FallbackReturns(c) ==
    /\ \E k \in Awaited(c, "fallbackSubmit") :
         NextCommand(c, k, Entry(k.op, k.cmd, k.res, "ok"))
    /\ lastOp' = "other"
    /\ UNCHANGED <<regState, heartbeatTimer, pollTimer, hbInFlight, stopCalls>>
    /\ UNCHANGED <<shellVars, execVars, fleetVars, envVars, launchVars, infoVars, fsVars>>

\* Faulty variant of FallbackThrows: the fallback submitResult is not wrapped in
\* a try of its own, so its error reaches the outer catch and ends the cycle.
FallbackThrowsAborts(c) ==
    /\ \E k \in Awaited(c, "fallbackSubmit") :
         FinishCycle(c, k, Entry(k.op, k.cmd, k.res, "throw"))
    /\ lastOp' = "other"
    /\ UNCHANGED <<regState, heartbeatTimer, pollTimer, hbInFlight, stopCalls>>
    /\ UNCHANGED <<shellVars, execVars, fleetVars, envVars, launchVars, infoVars, fsVars>>

\* The innermost catch logs that the result could not be sent.
FallbackThrows(c) ==
    /\ \E k \in Awaited(c, "fallbackSubmit") :
         NextCommand(c, k, Entry(k.op, k.cmd, k.res, "throw"))
    /\ lastOp' = "other"
    /\ UNCHANGED <<regState, heartbeatTimer, pollTimer, hbInFlight, stopCalls>>
    /\ UNCHANGED <<shellVars, execVars, fleetVars, envVars, launchVars, infoVars, fsVars>>

\* -------------------------------------------------------------------- stop

\* clearInterval on a live handle cancels it; on a cancelled one it does nothing.
ClearInterval(t) == IF t = "active" THEN "cleared" ELSE t

\* Faulty variant of Stop: a cancelled timer is armed again by the next call.
StopToggles ==
    /\ stopCalls' = IF stopCalls < 2 THEN stopCalls + 1 ELSE 2
    /\ heartbeatTimer' = (IF heartbeatTimer = "active" THEN "cleared"
                          ELSE IF heartbeatTimer = "cleared" THEN "active"
                          ELSE heartbeatTimer)
    /\ pollTimer' = (IF pollTimer = "active" THEN "cleared"
                     ELSE IF pollTimer = "cleared" THEN "active" ELSE pollTimer)
    /\ lastOp' = "Stop"
    /\ UNCHANGED <<regState, processing, hbInFlight, cycles, inflight>>
    /\ UNCHANGED <<shellVars, execVars, fleetVars, envVars, launchVars, infoVars, fsVars>>

\* stop(): each timer variable that holds a handle is cleared.
Stop ==
    /\ stopCalls' = IF stopCalls < 2 THEN stopCalls + 1 ELSE 2
    /\ heartbeatTimer' = (IF heartbeatTimer # "null" THEN ClearInterval(heartbeatTimer)
                          ELSE heartbeatTimer)
    /\ pollTimer' = (IF pollTimer # "null" THEN ClearInterval(pollTimer)
                     ELSE pollTimer)
    /\ lastOp' = "Stop"
    /\ UNCHANGED <<regState, processing, hbInFlight, cycles, inflight>>
    /\ UNCHANGED <<shellVars, execVars, fleetVars, envVars, launchVars, infoVars, fsVars>>

Next ==
    \/ RegisterReturns
    \/ RegisterThrows
    \/ HeartbeatTick
    \/ HeartbeatReturns
    \/ HeartbeatThrows
    \/ PollTick
    \/ \E c \in Slots : PendingReturns(c)
    \/ \E c \in Slots : PendingThrows(c)
    \/ \E c \in Slots : GetCommandReturns(c)
    \/ \E c \in Slots : GetCommandThrows(c)
    \/ \E c \in Slots : ExecuteReturns(c)
    \/ \E c \in Slots : SubmitReturns(c)
    \/ \E c \in Slots : SubmitThrows(c)
    \/ \E c \in Slots : FallbackReturns(c)
    \/ \E c \in Slots : FallbackThrows(c)
    \/ Stop

Spec == Init /\ [][Next]_vars

\* A call of cycle c that is awaited settles: it returns or it throws.
Settles(c) ==
    \/ PendingReturns(c) \/ PendingThrows(c)
    \/ GetCommandReturns(c) \/ GetCommandThrows(c)
    \/ ExecuteReturns(c)
    \/ SubmitReturns(c) \/ SubmitThrows(c)
    \/ FallbackReturns(c) \/ FallbackThrows(c)

\* The steps of registration, polling and stop; heartbeats, which touch none
\* of the cycle state, are left out.
NextPoll ==
    \/ RegisterReturns
    \/ RegisterThrows
    \/ PollTick
    \/ \E c \in Slots : PendingReturns(c)
    \/ \E c \in Slots : PendingThrows(c)
    \/ \E c \in Slots : GetCommandReturns(c)
    \/ \E c \in Slots : GetCommandThrows(c)
    \/ \E c \in Slots : ExecuteReturns(c)
    \/ \E c \in Slots : SubmitReturns(c)
    \/ \E c \in Slots : SubmitThrows(c)
    \/ \E c \in Slots : FallbackReturns(c)
    \/ \E c \in Slots : FallbackThrows(c)
    \/ Stop

\* The poll loop by itself.
SpecPoll == Init /\ [][NextPoll]_vars

\* The poll loop when every awaited call eventually settles and a running
\* interval keeps firing.
SpecFair ==
    /\ Init
    /\ [][NextPoll]_vars
    /\ WF_vars(PollTick)
    /\ \A c \in Slots : WF_vars(Settles(c))

\* ------------------------------------------------------ executeShellCommand

\* Exit codes 'close' reports; -1 stands for null (the process died of a signal).
ExitCodes == {0, 1, -1}

\* Error codes an 'error' event carries; "other" is any code but these two.
ErrnoCodes == {"ENOENT", "EACCES", "other"}

Streams == {"stdout", "stderr"}

\* The promise settles with the value of the first resolve call.
Resolve(r) ==
    /\ resolveCalls' = resolveCalls + 1
    /\ result' = IF resolveCalls = 0 THEN r ELSE result

\* Records which completion source came first, with the result it stands for.
NoteFirst(ev, r) ==
    first' = IF first.ev = "none" THEN [ev |-> ev, res |-> r] ELSE first

\* clearTimeout cancels a pending timeout and does nothing to any other.
ClearTimeout(t) == IF t = "armed" THEN "cleared" ELSE t

TimeoutResult == Result(FALSE, -1, FALSE, "timed out")

\* The result the 'close' handler builds from the exit code and the capture.
CloseResult(code) ==
    LET truncated == outputSize > MAX_OUTPUT_SIZE
    IN IF code = 0
       THEN Result(TRUE, stdout, truncated, "none")
       ELSE Result(FALSE, stdout, truncated,
                   IF stderr > 0 THEN "stderr" ELSE "exited with code")

\* The result the 'error' handler builds from err.code.
ErrorResult(e) ==
    Result(FALSE, -1, FALSE,
           IF e = "ENOENT" THEN "Command not found"
           ELSE IF e = "EACCES" THEN "Permission denied"
           ELSE "err.message")

\* The promise executor: the shell is spawned and the timeout armed.
Spawn ==
    /\ proc = "none"
    /\ proc' = "running"
    /\ resolved' = FALSE
    /\ stdout' = 0
    /\ stderr' = 0
    /\ outputSize' = 0
    /\ timer' = "armed"
    /\ UNCHANGED <<kills, resolveCalls, result, errorFired, first>>
    /\ UNCHANGED <<agentVars, execVars, fleetVars, envVars, launchVars, infoVars, fsVars>>

\* Faulty variant of TimerFires: the process is killed and the promise is left
\* to the 'close' handler.
TimerFiresKillOnly ==
    /\ timer = "armed"
    /\ timer' = "fired"
    /\ NoteFirst("timeout", TimeoutResult)
    /\ IF ~resolved
       THEN kills' = kills + 1
       ELSE UNCHANGED kills
    /\ UNCHANGED <<resolved, resolveCalls, result>>
    /\ UNCHANGED <<proc, errorFired, stdout, stderr, outputSize>>
    /\ UNCHANGED <<agentVars, execVars, fleetVars, envVars, launchVars, infoVars, fsVars>>

\* The timeout callback.
TimerFires ==
    /\ timer = "armed"
    /\ timer' = "fired"
    /\ NoteFirst("timeout", TimeoutResult)
    /\ IF ~resolved
       THEN /\ resolved' = TRUE
            /\ kills' = kills + 1
            /\ Resolve(TimeoutResult)
       ELSE UNCHANGED <<resolved, kills, resolveCalls, result>>
    /\ UNCHANGED <<proc, errorFired, stdout, stderr, outputSize>>
    /\ UNCHANGED <<agentVars, execVars, fleetVars, envVars, launchVars, infoVars, fsVars>>

\* Faulty variant of ProcData: a chunk that fills the capture exactly to the cap
\* is dropped.
ProcDataOffByOne(stream, n) ==
    /\ proc = "running"
    /\ outputSize + n <= MAX_OUTPUT_SIZE + MaxChunk
    /\ outputSize' = outputSize + n
    /\ stdout' = IF stream = "stdout" /\ outputSize + n < MAX_OUTPUT_SIZE
                 THEN stdout + n ELSE stdout
    /\ stderr' = IF stream = "stderr" /\ outputSize + n < MAX_OUTPUT_SIZE
                 THEN stderr + n ELSE stderr
    /\ UNCHANGED <<proc, resolved, timer, kills, resolveCalls, result, errorFired,
                   first>>
    /\ UNCHANGED <<agentVars, execVars, fleetVars, envVars, launchVars, infoVars, fsVars>>

\* Faulty variant of ProcData: the test is on what has been captured, not on
\* what has been counted.
ProcDataTestsCapture(stream, n) ==
    /\ proc = "running"
    /\ outputSize + n <= MAX_OUTPUT_SIZE + MaxChunk
    /\ outputSize' = outputSize + n
    /\ stdout' = IF stream = "stdout" /\ stdout + stderr + n <= MAX_OUTPUT_SIZE
                 THEN stdout + n ELSE stdout
    /\ stderr' = IF stream = "stderr" /\ stdout + stderr + n <= MAX_OUTPUT_SIZE
                 THEN stderr + n ELSE stderr
    /\ UNCHANGED <<proc, resolved, timer, kills, resolveCalls, result, errorFired,
                   first>>
    /\ UNCHANGED <<agentVars, execVars, fleetVars, envVars, launchVars, infoVars, fsVars>>

\* A 'data' event of n bytes on one stream: counted, and kept while the count
\* stays within the cap.
ProcData(stream, n) ==
    /\ proc = "running"
    /\ outputSize + n <= MAX_OUTPUT_SIZE + MaxChunk
    /\ outputSize' = outputSize + n
    /\ stdout' = IF stream = "stdout" /\ outputSize + n <= MAX_OUTPUT_SIZE
                 THEN stdout + n ELSE stdout
    /\ stderr' = IF stream = "stderr" /\ outputSize + n <= MAX_OUTPUT_SIZE
                 THEN stderr + n ELSE stderr
    /\ UNCHANGED <<proc, resolved, timer, kills, resolveCalls, result, errorFired,
                   first>>
    /\ UNCHANGED <<agentVars, execVars, fleetVars, envVars, launchVars, infoVars, fsVars>>

\* Faulty variant of ProcClose: the latch is not tested.
ProcCloseNoLatch(code) ==
    /\ proc = "running"
    /\ proc' = "closed"
    /\ timer' = ClearTimeout(timer)
    /\ NoteFirst("close", CloseResult(code))
    /\ resolved' = TRUE
    /\ Resolve(CloseResult(code))
    /\ UNCHANGED <<kills, errorFired, stdout, stderr, outputSize>>
    /\ UNCHANGED <<agentVars, execVars, fleetVars, envVars, launchVars, infoVars, fsVars>>

\* Faulty variant of ProcClose: the timeout is not cancelled.
ProcCloseNoClear(code) ==
    /\ proc = "running"
    /\ proc' = "closed"
    /\ NoteFirst("close", CloseResult(code))
    /\ IF resolved
       THEN UNCHANGED <<resolved, resolveCalls, result>>
       ELSE /\ resolved' = TRUE
            /\ Resolve(CloseResult(code))
    /\ UNCHANGED <<timer, kills, errorFired, stdout, stderr, outputSize>>
    /\ UNCHANGED <<agentVars, execVars, fleetVars, envVars, launchVars, infoVars, fsVars>>

\* The 'close' handler.
ProcClose(code) ==
    /\ proc = "running"
    /\ proc' = "closed"
    /\ timer' = ClearTimeout(timer)
    /\ NoteFirst("close", CloseResult(code))
    /\ IF resolved
       THEN UNCHANGED <<resolved, resolveCalls, result>>
       ELSE /\ resolved' = TRUE
            /\ Resolve(CloseResult(code))
    /\ UNCHANGED <<kills, errorFired, stdout, stderr, outputSize>>
    /\ UNCHANGED <<agentVars, execVars, fleetVars, envVars, launchVars, infoVars, fsVars>>

\* The 'error' handler; the event may come before or after 'close'.
ProcError(e) ==
    /\ proc # "none"
    /\ ~errorFired
    /\ errorFired' = TRUE
    /\ timer' = ClearTimeout(timer)
    /\ NoteFirst("error", ErrorResult(e))
    /\ IF resolved
       THEN UNCHANGED <<resolved, resolveCalls, result>>
       ELSE /\ resolved' = TRUE
            /\ Resolve(ErrorResult(e))
    /\ UNCHANGED <<proc, kills, stdout, stderr, outputSize>>
    /\ UNCHANGED <<agentVars, execVars, fleetVars, envVars, launchVars, infoVars, fsVars>>

NextShell ==
    \/ Spawn
    \/ TimerFires
    \/ \E stream \in Streams : \E n \in 1..MaxChunk : ProcData(stream, n)
    \/ \E code \in ExitCodes : ProcClose(code)
    \/ \E e \in ErrnoCodes : ProcError(e)

\* One shell command, from the spawn to the last event of the process.
SpecShell == Init /\ [][NextShell]_vars

\* The same, the event loop running every timeout callback that is due; the
\* process itself need never close nor fail.
SpecShellFair == Init /\ [][NextShell]_vars /\ WF_vars(TimerFires)

\* ---------------------------------------------------------- file system, paths

\* A path is the sequence of its components; <<>> is the empty string and a
\* first component "." makes the path relative to the working directory.
Dir == [type |-> "dir", target |-> <<>>]

File == [type |-> "file", target |-> <<>>]

Link(target) == [type |-> "link", target |-> target]

\* The file system the commands start on: a blocked directory, a file whose
\* name begins like the blocked directory's, a free directory with symbolic
\* links into the blocked one (to a file, to the directory, and a dangling one
\* to a file that does not exist yet), and the home directory.
StaticNodes ==
    (<<"etc">> :> Dir) @@ (<<"etc", "passwd">> :> File) @@
    (<<"etcfoo">> :> File) @@
    (<<"tmp">> :> Dir) @@ (<<"tmp", "a.txt">> :> File) @@
    (<<"tmp", "lnk">> :> Link(<<"etc", "passwd">>)) @@
    (<<"tmp", "dirlnk">> :> Link(<<"etc">>)) @@
    (<<"tmp", "dangling">> :> Link(<<"etc", "newfile">>)) @@
    (<<"home">> :> Dir) @@ (<<"home", ".ssh">> :> Dir) @@
    (<<"home", ".ssh", "id_rsa">> :> File)

\* The links a shell command may put in place while a handler is waiting:
\* /tmp/a.txt replaced by a link to /etc/passwd, and a link /tmp/nd to /etc.
PlantTargets ==
    (<<"tmp", "a.txt">> :> <<"etc", "passwd">>) @@ (<<"tmp", "nd">> :> <<"etc">>)

\* The file system as it is now.
Nodes ==
    [p \in DOMAIN StaticNodes \cup planted |->
        IF p \in planted THEN Link(PlantTargets[p]) ELSE StaticNodes[p]]

\* os.homedir()
homedir == <<"home">>

\* process.cwd()
ProcessCwd == <<"tmp">>

BLOCKED_PATH_PREFIXES ==
    {<<"etc">>, <<"proc">>, <<"sys">>, <<"dev">>, <<"private", "etc">>,
     <<"private", "var", "db">>}

getSensitiveHomePaths ==
    {homedir \o <<".ssh">>, homedir \o <<".aws">>, homedir \o <<".gnupg">>,
     homedir \o <<".config", "gcloud">>}

\* path.resolve
PathResolve(p) ==
    IF p # <<>> /\ Head(p) = "." THEN ProcessCwd \o Tail(p) ELSE p

\* path.dirname of an absolute path
PathDirname(p) == IF p = <<>> THEN <<>> ELSE SubSeq(p, 1, Len(p) - 1)

\* path.basename
PathBasename(p) == IF p = <<>> THEN <<>> ELSE <<p[Len(p)]>>

Enoent == [ok |-> FALSE, p |-> <<>>]

RECURSIVE Walk(_, _, _)
\* The kernel's path walk from the resolved directory cur through the
\* components rest, following at most fuel symbolic links.
Walk(cur, rest, fuel) ==
    IF rest = <<>> THEN [ok |-> TRUE, p |-> cur]
    ELSE LET nxt == Append(cur, Head(rest))
         IN IF nxt \notin DOMAIN Nodes THEN Enoent
            ELSE IF Nodes[nxt].type = "link"
            THEN IF fuel = 0 THEN Enoent
                 ELSE Walk(<<>>, Nodes[nxt].target \o Tail(rest), fuel - 1)
            ELSE IF Nodes[nxt].type = "file" /\ Tail(rest) # <<>> THEN Enoent
            ELSE Walk(nxt, Tail(rest), fuel)

\* fs.promises.realpath: the canonical path, or a failure when a component
\* (or the target of a link) does not exist.
Realpath(p) == Walk(<<>>, PathResolve(p), Cardinality(DOMAIN Nodes))

RECURSIVE Locate(_, _, _)
\* Where an operation on the path lands: links are followed as far as
\* they lead, and what does not exist yet is created below that place.
Locate(cur, rest, fuel) ==
    IF rest = <<>> THEN cur
    ELSE LET nxt == Append(cur, Head(rest))
         IN IF nxt \notin DOMAIN Nodes THEN cur \o rest
            ELSE IF Nodes[nxt].type = "link" /\ fuel > 0
            THEN Locate(<<>>, Nodes[nxt].target \o Tail(rest), fuel - 1)
            ELSE Locate(nxt, Tail(rest), fuel)

Location(p) == Locate(<<>>, PathResolve(p), Cardinality(DOMAIN Nodes))

\* Faulty variant of UnderPrefix: startsWith is given the prefix without its
\* slash, so that '/etcfoo' starts with '/etc'.
UnderPrefixNoSlash(resolvedPath, prefix) ==
    /\ Len(prefix) <= Len(resolvedPath)
    /\ SubSeq(resolvedPath, 1, Len(prefix) - 1) = SubSeq(prefix, 1, Len(prefix) - 1)
    /\ \/ resolvedPath[Len(prefix)] = prefix[Len(prefix)]
       \/ resolvedPath[Len(prefix)] = "etcfoo" /\ prefix[Len(prefix)] = "etc"

\* resolved === prefixWithoutSlash || resolved.startsWith(prefix)
UnderPrefix(resolvedPath, prefix) ==
    /\ Len(prefix) <= Len(resolvedPath)
    /\ SubSeq(resolvedPath, 1, Len(prefix)) = prefix

NoError == ""

validateFilePath(fp) ==
    LET real == Realpath(fp)
        realParent == Realpath(PathDirname(PathResolve(fp)))
        resolvedPath == IF real.ok THEN real.p
                    ELSE IF realParent.ok THEN realParent.p \o PathBasename(fp)
                    ELSE PathResolve(fp)
    IN IF \E prefix \in BLOCKED_PATH_PREFIXES \cup getSensitiveHomePaths :
             UnderPrefix(resolvedPath, prefix)
       THEN "Access denied" ELSE NoError

\* The synchronous part of resolveAndValidatePath: the path to validate, or
\* Null when the payload names none and there is no default.
RequestedPath(pl, defaultPath) ==
    Coalesce(Coalesce(parseString(pl.path), defaultPath), Null)

\* The default path of a command type: '.' for file_list, none otherwise.
DefaultPath(type) ==
    IF type = "file_list" THEN PathStr(<<".">>) ELSE Undefined

\* -------------------------------------------------------- command executor

\* The limits of ./constants, scaled down; timeouts are in milliseconds.
MAX_CMD_TIMEOUT == 3
CMD_DEFAULT_TIMEOUT == 2
PROCESS_LIST_TIMEOUT == 2
MAX_DIR_ENTRIES == 2
MAX_FILE_WRITE_SIZE == 2
MAX_FILE_READ_SIZE == 2

BLOCKED_COMMAND_PATTERNS ==
    <<"rm -rf /", "mkfs", "dd of=/dev/", "> /dev/sd", "fork bomb">>

ALLOWED_SIGNALS == {"SIGTERM", "SIGUSR1", "SIGUSR2", "SIGINT", "SIGHUP"}

KnownTypes ==
    {"execute_command", "file_read", "file_write", "file_list", "process_list",
     "process_kill"}

FileTypes == {"file_read", "file_write", "file_list"}

\* A value of a type no field expects (an object).
Other == [kind |-> "object"]

\* A payload that is not an object at all: reading a field of it throws.
MissingPayload == [missing |-> TRUE]

IsObject(pl) == "command" \in DOMAIN pl

CommandValues ==
    {Undefined, Other, CmdStr(TRUE, {}), CmdStr(FALSE, {}), CmdStr(FALSE, {2, 5})}
    \cup {CmdStr(FALSE, {i}) : i \in DOMAIN BLOCKED_COMMAND_PATTERNS}

\* Timeouts in halves of a millisecond: below, at and above both ends of the
\* range, and 0.5 ms and 1.5 ms.
TimeoutValues ==
    {Undefined, Other, NaN}
    \cup {Num(n) : n \in {-2, 0, 1, 2, 3, 2 * MAX_CMD_TIMEOUT,
                          2 * MAX_CMD_TIMEOUT + 1, 2 * MAX_CMD_TIMEOUT + 2}}

CwdValues ==
    {Undefined, PathStr(<<>>), PathStr(<<"tmp">>), PathStr(<<"etc">>),
     PathStr(<<"tmp", "dirlnk">>), PathStr(<<"tmp", "nd">>),
     PathStr(<<"tmp", "dangling">>), PathStr(<<"etc", "new">>)}

RequestPaths ==
    {<<"etc">>, <<"etc", "passwd">>, <<"etc", "new">>, <<"etcfoo">>,
     <<"tmp">>, <<"tmp", "a.txt">>, <<"tmp", "new.txt">>,
     <<"tmp", "lnk">>, <<"tmp", "dirlnk">>, <<"tmp", "dirlnk", "passwd">>,
     <<"tmp", "dirlnk", "new.txt">>, <<"tmp", "dangling">>,
     <<"tmp", "nd", "new.txt">>, <<"tmp", "dirlnk", "nd", "new.txt">>,
     <<"home", ".ssh">>, <<"home", ".ssh", "id_rsa">>, <<"home", "notes">>,
     <<".">>, <<".", "a.txt">>}

PathValues == {Undefined, Other, PathStr(<<>>)} \cup {PathStr(p) : p \in RequestPaths}

ContentValues ==
    {Undefined, Other} \cup {Content(n) : n \in 0..(MAX_FILE_WRITE_SIZE + 1)}

\* Pids in halves: -1, 0, 0.5, 1, 1.5, 2.
PidValues == {Undefined, Other, NaN} \cup {Num(n) : n \in {-2, 0, 1, 2, 3, 4}}

SignalValues ==
    {Undefined, Other, SigStr("")}
    \cup {SigStr(s) : s \in ALLOWED_SIGNALS \cup {"SIGKILL", "SIGSTOP", "bogus"}}

ShellPayloads ==
    {MissingPayload}
    \cup {[NoPayload EXCEPT !.command = c, !.timeout = t, !.cwd = d] :
             c \in CommandValues, t \in TimeoutValues, d \in CwdValues}

FilePayloads ==
    {MissingPayload}
    \cup {[NoPayload EXCEPT !.path = p, !.content = c, !.createDirectories = m] :
             p \in PathValues, c \in ContentValues, m \in BOOLEAN}

KillPayloads ==
    {MissingPayload}
    \cup {[NoPayload EXCEPT !.pid = p, !.signal = s] :
             p \in PidValues, s \in SignalValues}

\* executeShellCommand({ command, timeout: PROCESS_LIST_TIMEOUT })
ProcessListPayload ==
    [NoPayload EXCEPT !.command = CmdStr(FALSE, {}),
                      !.timeout = Num(2 * PROCESS_LIST_TIMEOUT)]

\* A call to the operating system: op on a path, or with a number (the timeout
\* of a spawn, the pid of a kill, both in halves) and a signal.
OsCall(op, path, n, sig) == [op |-> op, path |-> path, n |-> n, sig |-> sig]

Called(op) == {i \in DOMAIN osCalls : osCalls[i].op = op}

\* Faulty variant of Settle: executeCommand without its try/catch.
SettleNoCatch(o) == o

\* Faulty variant of Settle: the catch returns a failure without a message.
SettleNoMessage(o) == IF o.kind = "throw" THEN Return(Failure("")) ELSE o

\* The try/catch of executeCommand around `return await handler(payload)`.
Settle(o) == IF o.kind = "throw" THEN Return(Failure(o.res.error)) ELSE o

validateCommand(command) ==
    IF \E i \in DOMAIN BLOCKED_COMMAND_PATTERNS : i \in command.hits
    THEN "Blocked dangerous command pattern" ELSE NoError

\* Faulty variant of RawTimeout: a payload without a timeout gets the maximum.
RawTimeoutMaxByDefault(pl) ==
    Coalesce(parseNumber(pl.timeout), Num(2 * MAX_CMD_TIMEOUT)).n

\* rawTimeout of executeShellCommand, in halves of a millisecond.
RawTimeout(pl) == Coalesce(parseNumber(pl.timeout), Num(2 * CMD_DEFAULT_TIMEOUT)).n

\* Faulty variant of executeShellChecks: the timeout is checked first.
executeShellChecksTimeoutFirst(pl) ==
    IF RawTimeout(pl) < 2 \/ RawTimeout(pl) > 2 * MAX_CMD_TIMEOUT
    THEN "Timeout must be between 1 and MAX_CMD_TIMEOUT"
    ELSE IF parseString(pl.command).kind = "null" THEN "No command specified"
    ELSE validateCommand(pl.command)

\* Faulty variant of executeShellChecks: only negative timeouts are refused at
\* the lower end.
executeShellChecksFromZero(pl) ==
    IF parseString(pl.command).kind = "null" THEN "No command specified"
    ELSE IF validateCommand(pl.command) # NoError THEN validateCommand(pl.command)
    ELSE IF RawTimeout(pl) < 0 \/ RawTimeout(pl) > 2 * MAX_CMD_TIMEOUT
    THEN "Timeout must be between 1 and MAX_CMD_TIMEOUT"
    ELSE NoError

\* The checks executeShellCommand makes before its first await.
executeShellChecks(pl) ==
    IF parseString(pl.command).kind = "null" THEN "No command specified"
    ELSE IF validateCommand(pl.command) # NoError THEN validateCommand(pl.command)
    ELSE IF RawTimeout(pl) < 2 \/ RawTimeout(pl) > 2 * MAX_CMD_TIMEOUT
    THEN "Timeout must be between 1 and MAX_CMD_TIMEOUT"
    ELSE NoError

\* What the promise of executeShellCommand resolves with once the process has
\* been spawned: success, non-zero exit, timeout, or a spawn error event.
ShellResults ==
    {CommandResult(TRUE, Text("stdout"), ""),
     CommandResult(FALSE, Text("stdout"), "Process exited with code"),
     Failure("Command timed out"), Failure("spawn error")}

\* executeCommand('execute_command', payload), up to the first await.
ExecuteShellCommand(pl) ==
    /\ pc = "idle"
    /\ cmdType' = "execute_command"
    /\ payload' = pl
    /\ IF ~IsObject(pl)
       THEN outcome' = Settle(Throw("TypeError")) /\ pc' = "done"
       ELSE IF executeShellChecks(pl) # NoError
       THEN outcome' = Settle(Return(Failure(executeShellChecks(pl)))) /\ pc' = "done"
       ELSE pc' = "validateCwd" /\ UNCHANGED outcome
    /\ UNCHANGED <<filePath, osCalls, listing>>
    /\ UNCHANGED <<agentVars, shellVars, fleetVars, envVars, launchVars, infoVars, fsVars>>

\* executeCommand('process_list', payload): the payload is not looked at.
ProcessList ==
    /\ pc = "idle"
    /\ cmdType' = "process_list"
    /\ payload' = ProcessListPayload
    /\ IF executeShellChecks(ProcessListPayload) # NoError
       THEN /\ outcome' = Settle(Return(Failure(executeShellChecks(ProcessListPayload))))
            /\ pc' = "done"
       ELSE pc' = "validateCwd" /\ UNCHANGED outcome
    /\ UNCHANGED <<filePath, osCalls, listing>>
    /\ UNCHANGED <<agentVars, shellVars, fleetVars, envVars, launchVars, infoVars, fsVars>>

\* Faulty variant of CwdValidated: the working directory is not checked.
CwdValidatedNoGuard ==
    /\ pc = "validateCwd"
    /\ LET cwd == Coalesce(parseString(payload.cwd), PathStr(homedir)).comps
       IN pc' = "spawn" /\ filePath' = cwd /\ UNCHANGED outcome
    /\ UNCHANGED <<cmdType, payload, osCalls, listing>>
    /\ UNCHANGED <<agentVars, shellVars, fleetVars, envVars, launchVars, infoVars, fsVars>>

\* validateFilePath(cwd) has settled.
CwdValidated ==
    /\ pc = "validateCwd"
    /\ LET cwd == Coalesce(parseString(payload.cwd), PathStr(homedir)).comps
       IN IF validateFilePath(cwd) # NoError
          THEN /\ outcome' = Settle(Return(Failure(validateFilePath(cwd))))
               /\ pc' = "done"
               /\ UNCHANGED filePath
          ELSE pc' = "spawn" /\ filePath' = cwd /\ UNCHANGED outcome
    /\ UNCHANGED <<cmdType, payload, osCalls, listing>>
    /\ UNCHANGED <<agentVars, shellVars, fleetVars, envVars, launchVars, infoVars, fsVars>>

SAFE_ENV_KEYS ==
    {"PATH", "HOME", "USER", "SHELL", "LANG", "LC_ALL", "LC_MESSAGES", "TERM",
     "TMPDIR", "TMP", "TEMP", "NODE_ENV", "SystemRoot", "USERPROFILE", "APPDATA",
     "PATHEXT", "COMSPEC"}

\* Names the host may have set: two of the allow-list and two that are not.
HostNames == {"PATH", "HOME", "AI_SUPPORT_AGENT_TOKEN", "LD_PRELOAD"}

\* A variable that is set holds a string, possibly the empty one.
EnvValues == {"", "x"}

\* The environments of the host: any of the names set, to any value.
HostEnvs == UNION {[S -> EnvValues] : S \in SUBSET HostNames}

\* Faulty variant of buildSafeEnv: the allow-listed variables are laid over
\* a copy of process.env.
buildSafeEnvOverHost(env) == env

\* The allow-listed variables that are set, each with its value.
buildSafeEnv(env) ==
    [key \in {k \in SAFE_ENV_KEYS : k \in DOMAIN env} |-> env[key]]

\* The promise executor spawns the process with the env buildSafeEnv makes of
\* process.env; spawn throws, or the promise is resolved by one of the
\* process's events: by 'error' when the working directory does not exist.
SpawnProcess ==
    /\ pc = "spawn"
    /\ osCalls' = Append(osCalls, OsCall("spawn", filePath, RawTimeout(payload), ""))
    /\ \E env \in HostEnvs :
          /\ hostEnv' = env
          /\ childEnv' = buildSafeEnv(env)
    /\ \E o \in {Throw("spawn failed")} \cup {Return(r) : r \in ShellResults} :
          /\ Realpath(filePath).ok \/ o \in {Throw("spawn failed"),
                                              Return(Failure("spawn error"))}
          /\ outcome' = Settle(o)
    /\ pc' = "done"
    /\ UNCHANGED <<cmdType, payload, filePath, listing>>
    /\ UNCHANGED <<agentVars, shellVars, fleetVars, launchVars, infoVars, fsVars>>

\* executeCommand with a file command, up to the await in
\* resolveAndValidatePath.
FileCommand(type, pl) ==
    /\ pc = "idle"
    /\ type \in FileTypes
    /\ cmdType' = type
    /\ payload' = pl
    /\ IF ~IsObject(pl)
       THEN /\ outcome' = Settle(Throw("TypeError"))
            /\ pc' = "done"
            /\ UNCHANGED filePath
       ELSE IF RequestedPath(pl, DefaultPath(type)).kind = "null"
       THEN /\ outcome' = Settle(Return(Failure("No file path specified")))
            /\ pc' = "done"
            /\ UNCHANGED filePath
       ELSE /\ pc' = "validatePath"
            /\ filePath' = RequestedPath(pl, DefaultPath(type)).comps
            /\ UNCHANGED outcome
    /\ UNCHANGED <<osCalls, listing>>
    /\ UNCHANGED <<agentVars, shellVars, fleetVars, envVars, launchVars, infoVars, fsVars>>

\* fileRead after resolveAndValidatePath has settled.
FileReadValidated ==
    /\ pc = "validatePath"
    /\ cmdType = "file_read"
    /\ IF validateFilePath(filePath) # NoError
       THEN /\ outcome' = Settle(Return(Failure(validateFilePath(filePath))))
            /\ pc' = "done"
       ELSE pc' = "stat" /\ UNCHANGED outcome
    /\ UNCHANGED <<cmdType, payload, filePath, osCalls, listing>>
    /\ UNCHANGED <<agentVars, shellVars, fleetVars, envVars, launchVars, infoVars, fsVars>>

\* The sizes a file to read may have: up to one byte over the cap.
FileSizes == 0..(MAX_FILE_READ_SIZE + 1)

\* Faulty variant of FileReadStat: a file of exactly the cap is refused.
FileReadStatAtCap ==
    /\ pc = "stat"
    /\ \/ /\ osCalls' = Append(osCalls, OsCall("stat", filePath, -1, ""))
          /\ outcome' = Settle(Throw("ENOENT"))
          /\ pc' = "done"
       \/ \E size \in FileSizes :
             /\ osCalls' = Append(osCalls, OsCall("stat", filePath, size, ""))
             /\ IF size >= MAX_FILE_READ_SIZE
                THEN outcome' = Settle(Return(Failure("File too large"))) /\ pc' = "done"
                ELSE pc' = "readFile" /\ UNCHANGED outcome
    /\ UNCHANGED <<cmdType, payload, filePath, listing>>
    /\ UNCHANGED <<agentVars, shellVars, fleetVars, envVars, launchVars, infoVars, fsVars>>

\* fs.promises.stat settles: it throws (the call is noted with -1), or reports
\* a size (noted with the call).
FileReadStat ==
    /\ pc = "stat"
    /\ \/ /\ osCalls' = Append(osCalls, OsCall("stat", filePath, -1, ""))
          /\ outcome' = Settle(Throw("ENOENT"))
          /\ pc' = "done"
       \/ \E size \in FileSizes :
             /\ osCalls' = Append(osCalls, OsCall("stat", filePath, size, ""))
             /\ IF size > MAX_FILE_READ_SIZE
                THEN outcome' = Settle(Return(Failure("File too large"))) /\ pc' = "done"
                ELSE pc' = "readFile" /\ UNCHANGED outcome
    /\ UNCHANGED <<cmdType, payload, filePath, listing>>
    /\ UNCHANGED <<agentVars, shellVars, fleetVars, envVars, launchVars, infoVars, fsVars>>

\* fs.promises.readFile settles; the call is noted with the size of the file,
\* which is the one stat reported.
FileReadFile ==
    /\ pc = "readFile"
    /\ osCalls' = Append(osCalls, OsCall("readFile", filePath, osCalls[Len(osCalls)].n, ""))
    /\ \E o \in {Throw("EACCES"), Return(CommandResult(TRUE, Text("content"), ""))} :
          outcome' = Settle(o)
    /\ pc' = "done"
    /\ UNCHANGED <<cmdType, payload, filePath, listing>>
    /\ UNCHANGED <<agentVars, shellVars, fleetVars, envVars, launchVars, infoVars, fsVars>>

\* The content checks of fileWrite.
fileWriteChecks(pl) ==
    IF pl.content.kind # "string" THEN "No content specified"
    ELSE IF pl.content.length > MAX_FILE_WRITE_SIZE THEN "Content too large"
    ELSE NoError

\* Faulty variant of FileWriteValidated: the directories are created before
\* the content is looked at.
FileWriteMkdirFirst ==
    /\ pc = "validatePath"
    /\ cmdType = "file_write"
    /\ IF validateFilePath(filePath) # NoError
       THEN /\ outcome' = Settle(Return(Failure(validateFilePath(filePath))))
            /\ pc' = "done"
       ELSE IF payload.createDirectories
       THEN pc' = "mkdir" /\ UNCHANGED outcome
       ELSE IF fileWriteChecks(payload) # NoError
       THEN /\ outcome' = Settle(Return(Failure(fileWriteChecks(payload))))
            /\ pc' = "done"
       ELSE pc' = "writeFile" /\ UNCHANGED outcome
    /\ UNCHANGED <<cmdType, payload, filePath, osCalls, listing>>
    /\ UNCHANGED <<agentVars, shellVars, fleetVars, envVars, launchVars, infoVars, fsVars>>

\* fileWrite after resolveAndValidatePath has settled, up to its next await.
FileWriteValidated ==
    /\ pc = "validatePath"
    /\ cmdType = "file_write"
    /\ IF validateFilePath(filePath) # NoError
       THEN /\ outcome' = Settle(Return(Failure(validateFilePath(filePath))))
            /\ pc' = "done"
       ELSE IF fileWriteChecks(payload) # NoError
       THEN /\ outcome' = Settle(Return(Failure(fileWriteChecks(payload))))
            /\ pc' = "done"
       ELSE /\ pc' = IF payload.createDirectories THEN "mkdir" ELSE "writeFile"
            /\ UNCHANGED outcome
    /\ UNCHANGED <<cmdType, payload, filePath, osCalls, listing>>
    /\ UNCHANGED <<agentVars, shellVars, fleetVars, envVars, launchVars, infoVars, fsVars>>

\* fs.promises.mkdir(dirname, { recursive: true }) settles.
FileWriteMkdir ==
    /\ pc = "mkdir"
    /\ osCalls' = Append(osCalls, OsCall("mkdir", PathDirname(PathResolve(filePath)), 0, ""))
    /\ \/ outcome' = Settle(Throw("EACCES")) /\ pc' = "done"
       \/ pc' = "writeFile" /\ UNCHANGED outcome
    /\ UNCHANGED <<cmdType, payload, filePath, listing>>
    /\ UNCHANGED <<agentVars, shellVars, fleetVars, envVars, launchVars, infoVars, fsVars>>

\* fs.promises.writeFile settles.
FileWriteFile ==
    /\ pc = "writeFile"
    /\ osCalls' = Append(osCalls, OsCall("writeFile", filePath, 0, ""))
    /\ \E o \in {Throw("EACCES"), Return(CommandResult(TRUE, Text("Written to"), ""))} :
          outcome' = Settle(o)
    /\ pc' = "done"
    /\ UNCHANGED <<cmdType, payload, filePath, listing>>
    /\ UNCHANGED <<agentVars, shellVars, fleetVars, envVars, launchVars, infoVars, fsVars>>

\* fileList after resolveAndValidatePath has settled.
FileListValidated ==
    /\ pc = "validatePath"
    /\ cmdType = "file_list"
    /\ IF validateFilePath(filePath) # NoError
       THEN /\ outcome' = Settle(Return(Failure(validateFilePath(filePath))))
            /\ pc' = "done"
       ELSE pc' = "readdir" /\ UNCHANGED outcome
    /\ UNCHANGED <<cmdType, payload, filePath, osCalls, listing>>
    /\ UNCHANGED <<agentVars, shellVars, fleetVars, envVars, launchVars, infoVars, fsVars>>

\* fs.promises.readdir settles: it throws, or returns n entries.
FileListReaddir ==
    /\ pc = "readdir"
    /\ osCalls' = Append(osCalls, OsCall("readdir", filePath, 0, ""))
    /\ \/ outcome' = Settle(Throw("ENOTDIR")) /\ pc' = "done" /\ UNCHANGED listing
       \/ \E n \in 0..(MAX_DIR_ENTRIES + 1) :
             /\ listing' = [n |-> n, failed |-> {}]
             /\ pc' = "lstat"
             /\ UNCHANGED outcome
    /\ UNCHANGED <<cmdType, payload, filePath>>
    /\ UNCHANGED <<agentVars, shellVars, fleetVars, envVars, launchVars, infoVars, fsVars>>

\* allEntries.slice(0, k).length
Slice(n, k) == IF n < k THEN n ELSE k

\* Faulty variant of FileListStats: a directory with exactly MAX_DIR_ENTRIES
\* entries is reported as truncated.
FileListStatsOffByOne ==
    /\ pc = "lstat"
    /\ \E failed \in SUBSET (1..Slice(listing.n, MAX_DIR_ENTRIES)) :
          /\ listing' = [listing EXCEPT !.failed = failed]
          /\ osCalls' = osCalls \o [i \in 1..Slice(listing.n, MAX_DIR_ENTRIES) |->
                                       OsCall("lstat", filePath, i, "")]
          /\ outcome' = Settle(Return(CommandResult(TRUE,
                           [text |-> "",
                            items |-> Slice(listing.n, MAX_DIR_ENTRIES),
                            degraded |-> Cardinality(failed),
                            truncated |-> listing.n >= MAX_DIR_ENTRIES,
                            total |-> listing.n], "")))
    /\ pc' = "done"
    /\ UNCHANGED <<cmdType, payload, filePath>>
    /\ UNCHANGED <<agentVars, shellVars, fleetVars, envVars, launchVars, infoVars, fsVars>>

\* The lstat calls of Promise.all have settled; those of the entries in
\* `failed` threw and were caught entry by entry.
FileListStats ==
    /\ pc = "lstat"
    /\ \E failed \in SUBSET (1..Slice(listing.n, MAX_DIR_ENTRIES)) :
          /\ listing' = [listing EXCEPT !.failed = failed]
          /\ osCalls' = osCalls \o [i \in 1..Slice(listing.n, MAX_DIR_ENTRIES) |->
                                       OsCall("lstat", filePath, i, "")]
          /\ outcome' = Settle(Return(CommandResult(TRUE,
                           [text |-> "",
                            items |-> Slice(listing.n, MAX_DIR_ENTRIES),
                            degraded |-> Cardinality(failed),
                            truncated |-> listing.n > MAX_DIR_ENTRIES,
                            total |-> listing.n], "")))
    /\ pc' = "done"
    /\ UNCHANGED <<cmdType, payload, filePath>>
    /\ UNCHANGED <<agentVars, shellVars, fleetVars, envVars, launchVars, infoVars, fsVars>>

\* Faulty variant of processKillChecks: Number.isInteger is not asked.
processKillChecksAnyNumber(pl) ==
    LET pid == parseNumber(pl.pid)
        signal == Coalesce(parseString(pl.signal), SigStr("SIGTERM"))
    IN IF pid.kind = "null" THEN "Invalid PID"
       ELSE IF pid.n = 0 \/ pid.n < 2 THEN "Invalid PID"
       ELSE IF signal.name \notin ALLOWED_SIGNALS THEN "Signal not allowed"
       ELSE NoError

\* The checks of processKill on pid (in halves) and signal.
processKillChecks(pl) ==
    LET pid == parseNumber(pl.pid)
        signal == Coalesce(parseString(pl.signal), SigStr("SIGTERM"))
    IN IF pid.kind = "null" THEN "Invalid PID"
       ELSE IF pid.n = 0 \/ pid.n < 2 \/ pid.n % 2 # 0 THEN "Invalid PID"
       ELSE IF signal.name \notin ALLOWED_SIGNALS THEN "Signal not allowed"
       ELSE NoError

\* executeCommand('process_kill', payload): processKill has no await; kill
\* succeeds, or throws and is caught by processKill itself.
ProcessKill(pl) ==
    /\ pc = "idle"
    /\ cmdType' = "process_kill"
    /\ payload' = pl
    /\ IF ~IsObject(pl)
       THEN outcome' = Settle(Throw("TypeError")) /\ UNCHANGED osCalls
       ELSE IF processKillChecks(pl) # NoError
       THEN /\ outcome' = Settle(Return(Failure(processKillChecks(pl))))
            /\ UNCHANGED osCalls
       ELSE /\ osCalls' = Append(osCalls,
                   OsCall("kill", <<>>, pl.pid.n,
                          Coalesce(parseString(pl.signal), SigStr("SIGTERM")).name))
            /\ \E r \in {CommandResult(TRUE, Text("Sent"), ""), Failure("ESRCH")} :
                  outcome' = Settle(Return(r))
    /\ pc' = "done"
    /\ UNCHANGED <<filePath, listing>>
    /\ UNCHANGED <<agentVars, shellVars, fleetVars, envVars, launchVars, infoVars, fsVars>>

\* executeCommand with a type that has no handler.
UnknownType(type, pl) ==
    /\ pc = "idle"
    /\ type \notin KnownTypes
    /\ cmdType' = type
    /\ payload' = pl
    /\ outcome' = Settle(Return(Failure("Unknown command type")))
    /\ pc' = "done"
    /\ UNCHANGED <<filePath, osCalls, listing>>
    /\ UNCHANGED <<agentVars, shellVars, fleetVars, envVars, launchVars, infoVars, fsVars>>

NextExec ==
    \/ \E pl \in ShellPayloads : ExecuteShellCommand(pl)
    \/ ProcessList
    \/ CwdValidated
    \/ SpawnProcess
    \/ \E type \in FileTypes, pl \in FilePayloads : FileCommand(type, pl)
    \/ FileReadValidated
    \/ FileReadStat
    \/ FileReadFile
    \/ FileWriteValidated
    \/ FileWriteMkdir
    \/ FileWriteFile
    \/ FileListValidated
    \/ FileListReaddir
    \/ FileListStats
    \/ \E pl \in KillPayloads : ProcessKill(pl)
    \/ \E type \in {"unknown_type", ""}, pl \in {NoPayload, MissingPayload} :
          UnknownType(type, pl)

SpecExec == Init /\ [][NextExec]_vars

\* ---------------------------------------------------- claims on the run-loop

Running == {c \in Slots : cycles[c].st = "run"}

\* Every call the cycle in slot c has made so far, settled or not.
Issued(c) ==
    {[op |-> cycles[c].log[n].op, cmd |-> cycles[c].log[n].cmd,
      res |-> cycles[c].log[n].res] : n \in 1..Len(cycles[c].log)}
    \cup {[op |-> k.op, cmd |-> k.cmd, res |-> k.res] : k \in {x \in inflight : x.cyc = c}}

\* The settled calls of cycle c that threw.
Thrown(c) ==
    {[op |-> cycles[c].log[n].op, cmd |-> cycles[c].log[n].cmd] :
        n \in {m \in 1..Len(cycles[c].log) : cycles[c].log[m].out = "throw"}}

\* The settled calls of cycle c that returned.
Returned(c) ==
    {[op |-> cycles[c].log[n].op, cmd |-> cycles[c].log[n].cmd,
      res |-> cycles[c].log[n].res] :
        n \in {m \in 1..Len(cycles[c].log) : cycles[c].log[m].out = "ok"}}

\* Position of a command id in the list the cycle fetched (0: not a command).
PosIn(list, cmd) ==
    IF \E j \in 1..Len(list) : list[j] = cmd
    THEN CHOOSE j \in 1..Len(list) : list[j] = cmd
    ELSE 0

\* C1: at most one poll cycle of the agent is in progress at any time; every
\* call in flight belongs to that cycle, and the flag is set while it runs.
C1_SingleFlight ==
    /\ Cardinality(Running) <= 1
    /\ \A k \in inflight : k.cyc \in Running
    /\ Running # {} => processing

\* C1 witness: a poll tick has fired while a cycle was executing a command.
C1_Witness ==
    /\ lastOp = "PollSkip"
    /\ \E c \in Running : Awaited(c, "executeCommand") # {}

\* C2: a poll tick that finds the flag set makes no call, starts no cycle,
\* leaves the flag set, and no cycle ever starts except from a tick that found
\* the flag clear (a skipped tick is not queued).
C2_SkippedTickDoesNothing ==
    /\ [][lastOp' = "PollSkip" =>
            /\ processing /\ processing'
            /\ UNCHANGED <<cycles, inflight, hbInFlight>>]_vars
    /\ [][(\E c \in Slots : cycles[c].st # "run" /\ cycles'[c].st = "run") =>
            (~processing /\ pollTimer = "active" /\ Cardinality(inflight') = Cardinality(inflight) + 1)]_vars

\* C2 witness: a tick was skipped while a getCommand call was pending.
C2_Witness ==
    /\ lastOp = "PollSkip"
    /\ processing
    /\ \E c \in Running : Awaited(c, "getCommand") # {}

\* C3: for every command of the fetched list whose processing is over,
\* submitResult has been called with its commandId; the result submitted after
\* an execution is the one the execution returned, and every fault (getCommand
\* or submitResult throwing) is followed by a submitResult call carrying a
\* failure result for that command.
C3_ResultForEveryCommand ==
    \A c \in Slots :
        LET cy == cycles[c]
        IN /\ \A j \in 1..Len(cy.pending) :
                 (j < cy.i \/ cy.st = "done") =>
                     \E k \in Issued(c) : k.cmd = cy.pending[j] /\ k.op \in SubmitOps
           /\ \A t \in Thrown(c) :
                 t.op \in {"getCommand", "submitResult"} =>
                     [op |-> "fallbackSubmit", cmd |-> t.cmd, res |-> "fail"] \in Issued(c)
           /\ \A k \in Issued(c) :
                 k.op = "submitResult" =>
                     [op |-> "executeCommand", cmd |-> k.cmd, res |-> k.res] \in Returned(c)

\* C3 witness: a finished cycle of two commands, getCommand threw for the first
\* and the execution of the second failed.
C3_Witness ==
    \E c \in Slots :
        /\ cycles[c].st = "done"
        /\ Len(cycles[c].pending) = 2
        /\ [op |-> "getCommand", cmd |-> cycles[c].pending[1]] \in Thrown(c)
        /\ [op |-> "executeCommand", cmd |-> cycles[c].pending[2], res |-> "fail"]
              \in Returned(c)

\* C4: whatever failed for a command, the cycle goes on: when the cycle is over
\* getCommand has been called for every command of the list, and every command
\* whose detail was fetched has been executed and its result submitted.
C4_FaultDoesNotAbortCycle ==
    \A c \in Slots :
        LET cy == cycles[c]
        IN \A j \in 1..Len(cy.pending) :
              /\ (j <= cy.i \/ cy.st = "done") =>
                    \E k \in Issued(c) : k.op = "getCommand" /\ k.cmd = cy.pending[j]
              /\ cy.st = "done" =>
                    /\ cy.i = Len(cy.pending)
                    /\ [op |-> "getCommand", cmd |-> cy.pending[j], res |-> "-"]
                          \in Returned(c) =>
                         /\ \E k \in Returned(c) :
                               k.op = "executeCommand" /\ k.cmd = cy.pending[j]
                         /\ \E k \in Issued(c) :
                               k.op = "submitResult" /\ k.cmd = cy.pending[j]

\* C4 witness: a finished cycle in which both submitResult calls of the first
\* command threw and the second command was executed and submitted.
C4_Witness ==
    \E c \in Slots :
        /\ cycles[c].st = "done"
        /\ Len(cycles[c].pending) = 2
        /\ [op |-> "fallbackSubmit", cmd |-> cycles[c].pending[1]] \in Thrown(c)
        /\ [op |-> "submitResult", cmd |-> cycles[c].pending[1]] \in Thrown(c)
        /\ [op |-> "submitResult", cmd |-> cycles[c].pending[2], res |-> "ok"]
              \in Returned(c)

\* C5: a cycle has at most one call in flight, that call is about the command
\* the loop is at, the settled calls follow the order of the fetched list, and
\* at most one command is executing.
C5_SequentialInServerOrder ==
    /\ Cardinality({k \in inflight : k.op = "executeCommand"}) <= 1
    /\ \A c \in Slots :
        LET cy == cycles[c]
            mine == {k \in inflight : k.cyc = c}
        IN /\ Cardinality(mine) <= 1
           /\ \A k \in mine :
                 k.op # "getPendingCommands" =>
                     cy.i \in 1..Len(cy.pending) /\ k.cmd = cy.pending[cy.i]
           /\ \A a \in 1..(Len(cy.log) - 1) :
                 PosIn(cy.pending, cy.log[a].cmd) <= PosIn(cy.pending, cy.log[a + 1].cmd)
           /\ \A n \in 1..Len(cy.log) :
                 PosIn(cy.pending, cy.log[n].cmd) <= cy.i

\* C5 witness: the second command of the list <<2, 1>> is executing after the
\* result of the first was submitted.
C5_Witness ==
    \E c \in Running :
        /\ cycles[c].pending = <<2, 1>>
        /\ Awaited(c, "executeCommand") = {Call(c, "executeCommand", 1, "-")}
        /\ [op |-> "submitResult", cmd |-> 2, res |-> "ok"] \in Returned(c)

\* C6: once stop() has been called, both timers are cancelled, and no step
\* starts a heartbeat or a poll cycle any more.
C6_StopIsFinal ==
    /\ [](stopCalls > 0 => heartbeatTimer # "active" /\ pollTimer # "active")
    /\ [][stopCalls > 0 =>
            /\ hbInFlight' <= hbInFlight
            /\ \A c \in Slots : cycles'[c].st = "run" => cycles[c].st = "run"]_vars

\* C7: a stop() call that directly follows a stop() call changes nothing of the
\* agent's state.
C7_StopIdempotent ==
    [][(lastOp = "Stop" /\ lastOp' = "Stop") =>
          UNCHANGED <<regState, heartbeatTimer, pollTimer, processing, hbInFlight,
                      cycles, inflight>>]_vars

\* C7 witness: stop() called twice on an active agent, its timers cancelled.
C7_Witness ==
    /\ lastOp = "Stop"
    /\ stopCalls >= 2
    /\ regState = "ok"
    /\ heartbeatTimer = "cleared"
    /\ pollTimer = "cleared"

\* C8: timers, heartbeats and poll cycles exist only once register has
\* succeeded, and a failed registration stays failed.
C8_ActiveOnlyAfterRegister ==
    /\ []((\/ heartbeatTimer # "null"
           \/ pollTimer # "null"
           \/ hbInFlight > 0
           \/ processing
           \/ inflight # {}
           \/ \E c \in Slots : cycles[c].st # "unused") => regState = "ok")
    /\ [][regState = "failed" => regState' = "failed"]_vars

\* C8 witness: registration has failed and the agent has been stopped later.
C8_Witness ==
    /\ regState = "failed"
    /\ lastOp = "Stop"

\* ------------------------------------------------ claims on the shell runner

\* The completion sources that have fired so far.
Fired ==
    (IF timer = "fired" THEN {"timeout"} ELSE {})
    \cup (IF proc = "closed" THEN {"close"} ELSE {})
    \cup (IF errorFired THEN {"error"} ELSE {})

\* C9: resolve is never called twice; once any of timeout, close and error has
\* fired it has been called exactly once, with the result of the one that
\* fired first, whatever fired after it.
C9_ResolvedExactlyOnce ==
    /\ resolveCalls <= 1
    /\ Fired # {} =>
          /\ first.ev \in Fired
          /\ resolveCalls = 1
          /\ resolved
          /\ result = first.res
    /\ Fired = {} => resolveCalls = 0 /\ ~resolved

\* C9 witness: 'error' came first, then 'close' with exit code 0; the result
\* delivered is the error's.
C9_Witness ==
    /\ first.ev = "error"
    /\ Fired = {"error", "close"}
    /\ resolveCalls = 1
    /\ result = ErrorResult("ENOENT")
    /\ stdout > 0

\* C10: when the timeout is the first to fire the process is killed once and
\* the result is the timeout failure; when 'close' or 'error' is first the
\* timeout is cancelled, the process is never killed and the result is not a
\* timeout.
C10_TimeoutKillsElseCancelled ==
    /\ first.ev = "timeout" =>
          kills = 1 /\ timer = "fired" /\ result = TimeoutResult
    /\ first.ev \in {"close", "error"} =>
          kills = 0 /\ timer = "cleared" /\ result.error # "timed out"
    /\ first.ev = "none" => kills = 0 /\ timer \in {"none", "armed"}

\* C10 witness: the process closed with a non-zero code before the timeout,
\* and the timeout is cancelled.
C10_Witness ==
    /\ first.ev = "close"
    /\ proc = "closed"
    /\ timer = "cleared"
    /\ result.error = "stderr"

\* C16: the result built when the process closes carries the truncation marker
\* exactly when more than MAX_OUTPUT_SIZE bytes were produced on both streams
\* together; its data is the captured stdout; up to the cap (the cap included)
\* nothing produced is missing from the capture, and the capture never grows
\* beyond the cap.
C16_TruncationMarkerIffOverCap ==
    /\ stdout + stderr <= MAX_OUTPUT_SIZE
    /\ outputSize <= MAX_OUTPUT_SIZE => stdout + stderr = outputSize
    /\ (proc = "closed" /\ first.ev = "close") =>
          /\ result.marker = (outputSize > MAX_OUTPUT_SIZE)
          /\ result.data = stdout
          /\ (outputSize = MAX_OUTPUT_SIZE /\ stderr = 0) =>
                result.data = MAX_OUTPUT_SIZE /\ ~result.marker

\* C16 witness: the process wrote exactly MAX_OUTPUT_SIZE bytes to stdout and
\* exited with code 0; all of them are returned, without the marker.
C16_Witness ==
    /\ proc = "closed"
    /\ first.ev = "close"
    /\ outputSize = MAX_OUTPUT_SIZE
    /\ result = Result(TRUE, MAX_OUTPUT_SIZE, FALSE, "none")

\* ------------------------------------------------------ claims on heartbeats

\* C20: the step in which a heartbeat call fails changes neither timer, nor the
\* flag, nor any poll cycle; and as long as stop() has not been called a
\* registered agent has both timers running, so later ticks go on.
C20_HeartbeatFailureIsHarmless ==
    /\ [][lastOp' = "HeartbeatThrows" =>
            UNCHANGED <<regState, heartbeatTimer, pollTimer, processing, cycles,
                        inflight, stopCalls>>]_vars
    /\ []((regState = "ok" /\ stopCalls = 0) =>
            (heartbeatTimer = "active" /\ pollTimer = "active"))

\* C20 witness: a heartbeat has just failed while a poll cycle is executing a
\* command; both timers are still running and the flag is still set.
C20_Witness ==
    /\ lastOp = "HeartbeatThrows"
    /\ stopCalls = 0
    /\ heartbeatTimer = "active"
    /\ pollTimer = "active"
    /\ processing
    /\ \E c \in Running : Awaited(c, "executeCommand") # {}

\* ------------------------------------------------- claims on the executor

\* The command has settled.
Done == pc = "done"

\* The payload's field is a number that parseNumber accepts.
IsNumber(value) == value.kind = "number" /\ ~value.nan

\* The payload's field is a non-empty string.
IsGiven(value) == value.kind = "string" /\ ~value.empty

\* C11: executeCommand never rejects: whatever the type and the payload, and
\* whatever a handler or the operating system throws, it settles with a
\* CommandResult, and a failure carries a message.  A type without a handler
\* gives the failure 'Unknown command type' and no call to the file system or
\* the process table is made.
C11_ExecuteCommandNeverThrows ==
    /\ outcome.kind # "throw"
    /\ Done => /\ outcome.kind = "return"
               /\ outcome.res.success \/ outcome.res.error # ""
    /\ (Done /\ cmdType \notin KnownTypes) =>
          /\ outcome = Return(Failure("Unknown command type"))
          /\ osCalls = <<>>

\* C11 witness: stat threw inside fileRead and executeCommand returned the
\* failure.
C11_Witness ==
    /\ Done
    /\ cmdType = "file_read"
    /\ Called("stat") # {}
    /\ outcome = Return(Failure("ENOENT"))

\* C13: a command that matches a blocked pattern is refused with the
\* 'Blocked' failure and no process is spawned, whatever timeout and cwd are.
C13_BlockedCommandNeverSpawns ==
    (/\ cmdType = "execute_command"
     /\ IsObject(payload)
     /\ IsGiven(payload.command)
     /\ payload.command.hits # {}) =>
        /\ Called("spawn") = {}
        /\ Done
        /\ outcome = Return(Failure("Blocked dangerous command pattern"))

\* C13 witness: a blocked command that comes with a timeout out of range and a
\* blocked cwd is refused as a blocked command.
C13_Witness ==
    /\ Done
    /\ cmdType = "execute_command"
    /\ IsObject(payload)
    /\ IsGiven(payload.command)
    /\ payload.command.hits = {1}
    /\ payload.timeout = Num(0)
    /\ payload.cwd = PathStr(<<"etc">>)
    /\ outcome = Return(Failure("Blocked dangerous command pattern"))

\* C14: a numeric timeout below 1 ms or above MAX_CMD_TIMEOUT (zero, negative,
\* a fraction below 1 included) makes execute_command fail without spawning;
\* with a valid command the failure is the timeout one.
C14_TimeoutOutOfRangeNeverSpawns ==
    (/\ cmdType = "execute_command"
     /\ IsObject(payload)
     /\ IsNumber(payload.timeout)
     /\ payload.timeout.n < 2 \/ payload.timeout.n > 2 * MAX_CMD_TIMEOUT) =>
        /\ Called("spawn") = {}
        /\ Done
        /\ ~outcome.res.success
        /\ (IsGiven(payload.command) /\ payload.command.hits = {}) =>
              outcome = Return(Failure("Timeout must be between 1 and MAX_CMD_TIMEOUT"))

\* C14 witness: a harmless command with a timeout of half a millisecond is
\* refused.
C14_Witness ==
    /\ Done
    /\ cmdType = "execute_command"
    /\ IsObject(payload)
    /\ payload.command = CmdStr(FALSE, {})
    /\ payload.timeout = Num(1)
    /\ osCalls = <<>>
    /\ outcome = Return(Failure("Timeout must be between 1 and MAX_CMD_TIMEOUT"))

\* C15: process_kill calls kill once when the pid is a positive integer and
\* the signal is on the allow-list, with SIGTERM when the payload gives no
\* signal (none, an empty string or a value that is not a string), and makes
\* no call at all otherwise, failing.
C15_KillOnlyWhenValid ==
    (Done /\ cmdType = "process_kill" /\ IsObject(payload)) =>
        LET pidOk == /\ IsNumber(payload.pid)
                     /\ payload.pid.n >= 2
                     /\ payload.pid.n % 2 = 0
            signal == IF IsGiven(payload.signal) THEN payload.signal.name
                      ELSE "SIGTERM"
        IN IF pidOk /\ signal \in ALLOWED_SIGNALS
           THEN osCalls = <<OsCall("kill", <<>>, payload.pid.n, signal)>>
           ELSE osCalls = <<>> /\ ~outcome.res.success

\* C15 witness: a pid of 2 and no signal: SIGTERM is sent.
C15_Witness ==
    /\ Done
    /\ cmdType = "process_kill"
    /\ IsObject(payload)
    /\ payload.pid = Num(4)
    /\ payload.signal = Undefined
    /\ osCalls = <<OsCall("kill", <<>>, 4, "SIGTERM")>>
    /\ outcome.res.success

\* C17: once readdir has returned n entries file_list succeeds with
\* min(n, MAX_DIR_ENTRIES) items, truncated exactly when n > MAX_DIR_ENTRIES
\* and total n; an entry whose lstat fails is reported degraded, one lstat
\* is made per listed entry.
C17_ListingIsCapped ==
    (Done /\ cmdType = "file_list" /\ listing.n >= 0) =>
        LET shown == IF listing.n <= MAX_DIR_ENTRIES THEN listing.n
                     ELSE MAX_DIR_ENTRIES
        IN /\ outcome.kind = "return"
           /\ outcome.res.success
           /\ outcome.res.data.items = shown
           /\ outcome.res.data.truncated = (listing.n > MAX_DIR_ENTRIES)
           /\ outcome.res.data.total = listing.n
           /\ outcome.res.data.degraded = Cardinality(listing.failed)
           /\ Cardinality(Called("lstat")) = shown

\* C17 witness: a directory with one entry more than the cap, lstat failing on
\* every listed entry.
C17_Witness ==
    /\ Done
    /\ cmdType = "file_list"
    /\ listing.n = MAX_DIR_ENTRIES + 1
    /\ Cardinality(listing.failed) = MAX_DIR_ENTRIES
    /\ outcome.res.success
    /\ outcome.res.data.truncated
    /\ outcome.res.data.items = MAX_DIR_ENTRIES

\* C18: a file_write that is refused (no path, blocked path, content that is
\* not a string or is longer than MAX_FILE_WRITE_SIZE) never reaches mkdir or
\* writeFile, createDirectories or not; content of MAX_FILE_WRITE_SIZE is
\* accepted, one more is refused as too large.
C18_RejectedWriteTouchesNothing ==
    (cmdType = "file_write" /\ IsObject(payload)) =>
        LET noPath == ~IsGiven(payload.path)
            blocked == ~noPath /\ validateFilePath(payload.path.comps) # NoError
            noContent == payload.content.kind # "string"
            tooLong == ~noContent /\ payload.content.length > MAX_FILE_WRITE_SIZE
            atLimit == ~noContent /\ payload.content.length = MAX_FILE_WRITE_SIZE
        IN /\ (noPath \/ blocked \/ noContent \/ tooLong) =>
                 /\ osCalls = <<>>
                 /\ pc \notin {"mkdir", "writeFile"}
                 /\ Done => ~outcome.res.success
           /\ (Done /\ ~noPath /\ ~blocked /\ tooLong) =>
                 outcome = Return(Failure("Content too large"))
           /\ (Done /\ ~noPath /\ ~blocked /\ atLimit) =>
                 Called("mkdir") \cup Called("writeFile") # {}

\* C18 witness: content one longer than the limit, with createDirectories, on a
\* path that is allowed: refused, nothing called.
C18_Witness ==
    /\ Done
    /\ cmdType = "file_write"
    /\ IsObject(payload)
    /\ payload.path = PathStr(<<"tmp", "nd", "new.txt">>)
    /\ payload.createDirectories
    /\ payload.content = Content(MAX_FILE_WRITE_SIZE + 1)
    /\ osCalls = <<>>
    /\ outcome = Return(Failure("Content too large"))

\* The place the operation on path p would act on lies under a blocked
\* prefix (or is the blocked directory itself).
LandsInBlocked(p) ==
    \E prefix \in BLOCKED_PATH_PREFIXES \cup getSensitiveHomePaths :
        UnderPrefix(Location(p), prefix)

\* C12: when the path of file_read, file_write or file_list leads, through
\* whatever symbolic links, to a place under a blocked prefix, the command
\* fails with 'Access denied' and makes no stat, readFile, mkdir, writeFile
\* or readdir call.
C12_BlockedPathsNeverTouched ==
    (/\ cmdType \in FileTypes
     /\ IsObject(payload)
     /\ RequestedPath(payload, DefaultPath(cmdType)).kind = "string"
     /\ LandsInBlocked(RequestedPath(payload, DefaultPath(cmdType)).comps)) =>
        /\ osCalls = <<>>
        /\ pc \in {"validatePath", "done"}
        /\ Done => outcome = Return(Failure("Access denied"))

\* --------------------------------------------- startAgent and shutdown

\* Most projects a configuration holds.
MaxProjects == 3

\* What startProjectAgent returns: an agent waiting for its registration.
NewAgent ==
    [regState |-> "pending", heartbeatTimer |-> "null", pollTimer |-> "null",
     processing |-> FALSE, stopCalls |-> 0]

\* stop() of one agent.
StopAgent(a) ==
    [a EXCEPT !.heartbeatTimer = ClearInterval(a.heartbeatTimer),
              !.pollTimer = ClearInterval(a.pollTimer),
              !.stopCalls = IF a.stopCalls < 2 THEN a.stopCalls + 1 ELSE 2]

\* startAgent: one agent per project (one for the token given on the command
\* line or in the environment), then setupShutdownHandlers with all of them.
StartAgent(n) ==
    /\ started = 0
    /\ ~exited
    /\ started' = n
    /\ agents' = [i \in 1..n |-> NewAgent]
    /\ handlers' = {"SIGINT", "SIGTERM"}
    /\ UNCHANGED exited
    /\ UNCHANGED <<agentVars, shellVars, execVars, envVars, launchVars, infoVars, fsVars>>

\* client.register of agent i resolved.
AgentRegistered(i) ==
    /\ ~exited
    /\ agents[i].regState = "pending"
    /\ agents' = [agents EXCEPT ![i].regState = "ok",
                                ![i].heartbeatTimer = "active",
                                ![i].pollTimer = "active"]
    /\ UNCHANGED <<started, handlers, exited>>
    /\ UNCHANGED <<agentVars, shellVars, execVars, envVars, launchVars, infoVars, fsVars>>

\* client.register of agent i rejected.
AgentRegisterFailed(i) ==
    /\ ~exited
    /\ agents[i].regState = "pending"
    /\ agents' = [agents EXCEPT ![i].regState = "failed"]
    /\ UNCHANGED <<started, handlers, exited>>
    /\ UNCHANGED <<agentVars, shellVars, execVars, envVars, launchVars, infoVars, fsVars>>

\* Faulty variant of AgentPollStarts: the flag is one variable shared by all
\* agents.
AgentPollStartsShared(i) ==
    /\ ~exited
    /\ agents[i].pollTimer = "active"
    /\ \A j \in DOMAIN agents : ~agents[j].processing
    /\ agents' = [agents EXCEPT ![i].processing = TRUE]
    /\ UNCHANGED <<started, handlers, exited>>
    /\ UNCHANGED <<agentVars, shellVars, execVars, envVars, launchVars, infoVars, fsVars>>

\* A poll tick of agent i starts a cycle.
AgentPollStarts(i) ==
    /\ ~exited
    /\ agents[i].pollTimer = "active"
    /\ ~agents[i].processing
    /\ agents' = [agents EXCEPT ![i].processing = TRUE]
    /\ UNCHANGED <<started, handlers, exited>>
    /\ UNCHANGED <<agentVars, shellVars, execVars, envVars, launchVars, infoVars, fsVars>>

\* The cycle of agent i ends.
AgentPollEnds(i) ==
    /\ ~exited
    /\ agents[i].processing
    /\ agents' = [agents EXCEPT ![i].processing = FALSE]
    /\ UNCHANGED <<started, handlers, exited>>
    /\ UNCHANGED <<agentVars, shellVars, execVars, envVars, launchVars, infoVars, fsVars>>

\* Faulty variant of Shutdown: only the first agent is stopped.
ShutdownFirstOnly(sig) ==
    /\ ~exited
    /\ sig \in handlers
    /\ agents' = [i \in DOMAIN agents |->
                     IF i = 1 THEN StopAgent(agents[i]) ELSE agents[i]]
    /\ exited' = TRUE
    /\ UNCHANGED <<started, handlers>>
    /\ UNCHANGED <<agentVars, shellVars, execVars, envVars, launchVars, infoVars, fsVars>>

\* The signal arrives: agents.forEach((a) => a.stop()), then process.exit(0).
Shutdown(sig) ==
    /\ ~exited
    /\ sig \in handlers
    /\ agents' = [i \in DOMAIN agents |-> StopAgent(agents[i])]
    /\ exited' = TRUE
    /\ UNCHANGED <<started, handlers>>
    /\ UNCHANGED <<agentVars, shellVars, execVars, envVars, launchVars, infoVars, fsVars>>

\* A holder of the handle startProjectAgent returned calls stop() on agent i.
AgentStops(i) ==
    /\ ~exited
    /\ agents' = [agents EXCEPT ![i] = StopAgent(agents[i])]
    /\ UNCHANGED <<started, handlers, exited>>
    /\ UNCHANGED <<agentVars, shellVars, execVars, envVars, launchVars, infoVars, fsVars>>

NextFleet ==
    \/ \E n \in 1..MaxProjects : StartAgent(n)
    \/ \E i \in DOMAIN agents : AgentRegistered(i)
    \/ \E i \in DOMAIN agents : AgentRegisterFailed(i)
    \/ \E i \in DOMAIN agents : AgentPollStarts(i)
    \/ \E i \in DOMAIN agents : AgentPollEnds(i)
    \/ \E sig \in {"SIGINT", "SIGTERM"} : Shutdown(sig)

SpecFleet == Init /\ [][NextFleet]_vars

\* The agents of one process, any of which may also be stopped on its own.
NextAgents ==
    \/ \E n \in 1..MaxProjects : StartAgent(n)
    \/ \E i \in DOMAIN agents : AgentRegistered(i)
    \/ \E i \in DOMAIN agents : AgentRegisterFailed(i)
    \/ \E i \in DOMAIN agents : AgentPollStarts(i)
    \/ \E i \in DOMAIN agents : AgentPollEnds(i)
    \/ \E i \in DOMAIN agents : AgentStops(i)
    \/ \E sig \in {"SIGINT", "SIGTERM"} : Shutdown(sig)

SpecAgents == Init /\ [][NextAgents]_vars

\* C19: the step in which the process exits on SIGINT or SIGTERM calls stop()
\* once on every agent startAgent started, whether the agent is registering,
\* failed, idle or in a poll cycle; after it no agent has a running timer.
C19_ShutdownStopsEveryAgent ==
    /\ [][(exited' /\ ~exited) =>
            /\ DOMAIN agents = 1..started
            /\ \A i \in 1..started :
                  /\ agents[i].stopCalls = 0
                  /\ agents'[i] = StopAgent(agents[i])
                  /\ agents'[i].stopCalls = 1]_vars
    /\ [](exited =>
            \A i \in 1..started :
               /\ agents[i].stopCalls = 1
               /\ agents[i].heartbeatTimer # "active"
               /\ agents[i].pollTimer # "active")
    /\ [](~exited => \A i \in DOMAIN agents : agents[i].stopCalls = 0)

\* C19 witness: the process has exited with three agents stopped, one that was
\* still registering, one whose registration had failed and one in the middle
\* of a poll cycle.
C19_Witness ==
    /\ exited
    /\ started = 3
    /\ \E i, j, k \in DOMAIN agents :
          /\ agents[i].regState = "pending"
          /\ agents[j].regState = "failed"
          /\ agents[k].regState = "ok" /\ agents[k].processing
          /\ agents[i].stopCalls = 1 /\ agents[j].stopCalls = 1
          /\ agents[k].stopCalls = 1 /\ agents[k].pollTimer = "cleared"

\* ---------------------------------------------------- claims on the flag

\* The cycle in slot c ended at its getPendingCommands call, which threw.
FetchFailed(c) ==
    /\ cycles[c].st = "done"
    /\ cycles[c].log = <<Entry("getPendingCommands", 0, "-", "throw")>>

\* The cycle in slot c has nothing left to do: the fetch threw, or it returned
\* a list and the last command of the list has had its (fallback) submit settle.
Completed(cy) ==
    LET last == cy.log[Len(cy.log)]
    IN /\ cy.log # <<>>
       /\ \/ last.op = "getPendingCommands" /\ cy.pending = <<>>
          \/ /\ last.op \in SubmitOps
             /\ cy.i = Len(cy.pending)
             /\ last.cmd = cy.pending[cy.i]

\* C21: the flag is set in the very step that starts a cycle and is set exactly
\* while a cycle runs; it is cleared only by the step that ends the cycle, with
\* nothing of the cycle left to do, whether the fetch threw or commands
\* faulted; when every awaited call settles a set flag is eventually cleared,
\* and after a failed fetch a running poll timer starts a new cycle, which
\* calls getPendingCommands.
C21_FlagCoversTheCycle ==
    /\ [](processing <=> Running # {})
    /\ [][(processing /\ ~processing') =>
            \E c \in Slots :
               /\ cycles[c].st = "run"
               /\ cycles'[c].st = "done"
               /\ Completed(cycles'[c])
               /\ inflight' = {}]_vars
    /\ [][(~processing /\ processing') =>
            \E c \in Slots : /\ cycles'[c].st = "run"
                             /\ cycles'[c].log = <<>>
                             /\ inflight' = {Call(c, "getPendingCommands", 0, "-")}]_vars
    /\ processing ~> ~processing
    /\ (\E c \in Slots : FetchFailed(c) /\ ~processing)
          ~> (pollTimer # "active" \/ \E c \in Slots : Awaited(c, "getPendingCommands") # {})

\* C21 witness: the fetch of a cycle threw, the cycle is over and the flag is
\* clear again with the poll timer still running.
C21_Witness ==
    /\ \E c \in Slots : FetchFailed(c)
    /\ ~processing
    /\ Running = {}
    /\ pollTimer = "active"

\* C22: apart from the shutdown, which stops them all, a step changes the
\* timers, flag and registration of at most one agent; and an agent whose poll
\* timer runs and whose own flag is clear can start a cycle, whatever the other
\* agents are doing.
C22_AgentsShareNoState ==
    /\ [][(exited' = exited /\ DOMAIN agents' = DOMAIN agents) =>
            \A i, j \in DOMAIN agents :
               (i # j /\ agents'[i] # agents[i]) => agents'[j] = agents[j]]_vars
    /\ [](\A i \in DOMAIN agents :
            (~exited /\ agents[i].pollTimer = "active" /\ ~agents[i].processing)
               => ENABLED AgentPollStarts(i))

\* C22 witness: one agent has been stopped while two others are both in a poll
\* cycle with their timers running.
C22_Witness ==
    /\ ~exited
    /\ \E i, j, k \in DOMAIN agents :
          /\ i # j
          /\ agents[i].processing /\ agents[i].pollTimer = "active"
          /\ agents[j].processing /\ agents[j].pollTimer = "active"
          /\ agents[j].stopCalls = 0
          /\ agents[k].stopCalls = 1 /\ agents[k].pollTimer = "cleared"

\* C23: the env option of every spawn holds exactly the allow-listed names
\* that are set on the host, each with the host's value (an empty value
\* included), and no other name.
C23_ChildEnvIsAllowListed ==
    Called("spawn") # {} =>
        /\ DOMAIN childEnv = SAFE_ENV_KEYS \cap DOMAIN hostEnv
        /\ \A k \in DOMAIN childEnv : childEnv[k] = hostEnv[k]
        /\ \A k \in DOMAIN hostEnv \ SAFE_ENV_KEYS : k \notin DOMAIN childEnv

\* C23 witness: process_list spawns on a host with the agent token set, PATH
\* set to the empty string and HOME unset: the process gets PATH only.
C23_Witness ==
    /\ cmdType = "process_list"
    /\ Called("spawn") # {}
    /\ DOMAIN hostEnv = {"PATH", "AI_SUPPORT_AGENT_TOKEN", "LD_PRELOAD"}
    /\ hostEnv["PATH"] = ""
    /\ DOMAIN childEnv = {"PATH"}
    /\ childEnv["PATH"] = ""

\* C24: a result of executeCommand that says success has no error, one that
\* says failure has an error message, and a failure has data only when it is
\* that of a spawned command that exited with a code other than 0.
C24_ResultsAreWellFormed ==
    Done =>
        /\ outcome.kind = "return"
        /\ outcome.res.success => outcome.res.error = ""
        /\ ~outcome.res.success => outcome.res.error # ""
        /\ (~outcome.res.success /\ outcome.res.data # NoData) =>
              /\ cmdType \in {"execute_command", "process_list"}
              /\ Called("spawn") # {}
              /\ outcome.res.error = "Process exited with code"

\* C24 witness: a command exited with a code other than 0: the failure carries
\* the stdout captured so far.
C24_Witness ==
    /\ Done
    /\ cmdType = "execute_command"
    /\ outcome = Return(CommandResult(FALSE, Text("stdout"), "Process exited with code"))

\* ------------------------------------------- startAgent and the API URL

\* A URL string: the scheme as written before the first ':' ("" when the
\* string has none) and what follows it ("" when nothing does).
UrlStr(scheme, rest) ==
    [kind |-> "string", empty |-> scheme = "" /\ rest = "",
     scheme |-> scheme, rest |-> rest]

\* A token string.
TokStr(text) == [kind |-> "string", empty |-> text = "", text |-> text]

\* 'https://api.example.com', 'http://localhost:3030', 'HTTPS://API.EXAMPLE.COM',
\* 'file:///etc/passwd', 'javascript:alert(1)', 'ftp://example.com',
\* 'not-a-url', 'http://' and ''.
UrlStrings ==
    {UrlStr("https", "host"), UrlStr("http", "host"), UrlStr("HTTPS", "host"),
     UrlStr("file", "host"), UrlStr("javascript", "host"), UrlStr("ftp", "host"),
     UrlStr("", "host"), UrlStr("http", ""), UrlStr("", "")}

\* The scheme in lower case, as the URL parser stores it.
LowerCase(scheme) == IF scheme = "HTTPS" THEN "https" ELSE scheme

\* Schemes whose URLs must name a host.
HostSchemes == {"http", "https", "ftp"}

\* new URL(url): throws on a string without a scheme and on one of a host
\* scheme without a host; the protocol is the lower-case scheme and a colon.
NewURL(url) ==
    IF url.scheme = "" \/ (LowerCase(url.scheme) \in HostSchemes /\ url.rest = "")
    THEN [ok |-> FALSE, protocol |-> ""]
    ELSE [ok |-> TRUE, protocol |-> LowerCase(url.scheme) \o ":"]

\* Faulty variant of validateApiUrl: the protocol is not looked at.
validateApiUrlAnyProtocol(url) ==
    IF ~NewURL(url).ok THEN "Invalid URL" ELSE NoError

\* validateApiUrl: null (NoError) for a URL of protocol http: or https:.
validateApiUrl(url) ==
    IF ~NewURL(url).ok
    THEN "Invalid URL"
    ELSE IF NewURL(url).protocol \notin {"http:", "https:"}
    THEN "Invalid protocol"
    ELSE NoError

\* A JavaScript truthiness test of an optional string.
Truthy(value) == value.kind = "string" /\ ~value.empty

OptionValues ==
    [token : {Undefined, TokStr(""), TokStr("t")},
     apiUrl : {Undefined} \cup UrlStrings]

\* loadConfig(): null, or a configuration with some projects.
ConfigValues == {Null} \cup {[kind |-> "config", projects |-> n] : n \in 0..MaxProjects}

\* AI_SUPPORT_AGENT_TOKEN and AI_SUPPORT_AGENT_API_URL of process.env.
ProcessEnvValues ==
    [token : {Undefined, TokStr(""), TokStr("t")},
     apiUrl : {Undefined} \cup UrlStrings]

\* A project an agent is started for: where its URL came from, and the URL.
Project(from, apiUrl) == [from |-> from, apiUrl |-> apiUrl]

\* The URL of a project of the configuration file.
ConfigUrl == UrlStr("https", "host")

Exit(code) == [exitCode |-> code, projects |-> <<>>]

Started(projects) == [exitCode |-> -1, projects |-> projects]

\* What startAgent does with its options, the configuration and process.env:
\* exit with a code, or start an agent for each of some projects.
startAgent(options, config, env) ==
    IF Truthy(options.token) /\ Truthy(options.apiUrl)
    THEN IF validateApiUrl(options.apiUrl) # NoError
         THEN Exit(1)
         ELSE Started(<<Project("cli", options.apiUrl)>>)
    ELSE IF config = Null
    THEN IF Truthy(env.token) /\ Truthy(env.apiUrl)
         THEN IF validateApiUrl(env.apiUrl) # NoError
              THEN Exit(1)
              ELSE Started(<<Project("env", env.apiUrl)>>)
         ELSE Exit(1)
    ELSE IF config.projects = 0
    THEN Exit(1)
    ELSE Started([i \in 1..config.projects |-> Project("config", ConfigUrl)])

\* startAgent(options) is called, the configuration file and process.env
\* being what they are.
StartAgentFrom(options, config, env) ==
    /\ ~launch.called
    /\ started = 0
    /\ ~exited
    /\ LET did == startAgent(options, config, env)
       IN  /\ launch' = [called |-> TRUE, options |-> options, config |-> config,
                         env |-> env, exitCode |-> did.exitCode,
                         projects |-> did.projects]
           /\ started' = Len(did.projects)
           /\ agents' = [i \in 1..Len(did.projects) |-> NewAgent]
           /\ handlers' = IF did.exitCode = -1 THEN {"SIGINT", "SIGTERM"} ELSE {}
           /\ exited' = (did.exitCode # -1)
    /\ UNCHANGED <<agentVars, shellVars, execVars, envVars, infoVars, fsVars>>

NextLaunch ==
    \E options \in OptionValues, config \in ConfigValues, env \in ProcessEnvValues :
        StartAgentFrom(options, config, env)

SpecLaunch == Init /\ [][NextLaunch]_vars

\* The string parses as a URL whose protocol is http: or https:.
Acceptable(url) ==
    /\ NewURL(url).ok
    /\ NewURL(url).protocol \in {"http:", "https:"}

\* The API URLs given on the command line and in the environment.
SuppliedUrls ==
    {u \in {launch.options.apiUrl, launch.env.apiUrl} : u.kind = "string"}

\* The URL startAgent goes by: that of the command line when it comes with a
\* token, else that of the environment when it comes with a token and there
\* is no configuration file.
UsedUrls ==
    IF Truthy(launch.options.token) /\ Truthy(launch.options.apiUrl)
    THEN {launch.options.apiUrl}
    ELSE IF launch.config = Null /\ Truthy(launch.env.token) /\ Truthy(launch.env.apiUrl)
    THEN {launch.env.apiUrl}
    ELSE {}

\* validateApiUrl accepts exactly the acceptable strings; an agent started for
\* the URL of the command line or of the environment has an acceptable URL.
OnlyAcceptableUrlsStart ==
    /\ \A u \in UrlStrings : (validateApiUrl(u) = NoError) <=> Acceptable(u)
    /\ \A i \in DOMAIN launch.projects :
          launch.projects[i].from \in {"cli", "env"} =>
              Acceptable(launch.projects[i].apiUrl)

\* C25 as stated: whenever the URL of the command line or of the environment
\* is not acceptable, startAgent exits with code 1 and starts no agent.
C25_AnyBadUrlExits ==
    launch.called =>
        /\ OnlyAcceptableUrlsStart
        /\ \A u \in SuppliedUrls :
              ~Acceptable(u) => launch.exitCode = 1 /\ started = 0

\* C25: an agent is started for the URL of the command line or of the
\* environment only if validateApiUrl accepts it, and when the URL startAgent
\* goes by is not acceptable it exits with code 1 and starts no agent.
C25_BadUsedUrlExits ==
    launch.called =>
        /\ OnlyAcceptableUrlsStart
        /\ \A u \in UsedUrls :
              ~Acceptable(u) =>
                  launch.exitCode = 1 /\ exited /\ started = 0 /\ agents = <<>>

\* C25 witness: the command line gives a token and a file: URL, and a
\* configuration with projects exists: startAgent has exited with code 1.
C25_Witness ==
    /\ launch.called
    /\ launch.options = [token |-> TokStr("t"), apiUrl |-> UrlStr("file", "host")]
    /\ launch.config # Null
    /\ launch.exitCode = 1
    /\ started = 0

\* C26: the captured stdout and stderr together never exceed MAX_OUTPUT_SIZE,
\* the count of bytes produced never goes down, and once it is over the cap no
\* step appends anything to either capture.
C26_NothingAppendedPastTheCap ==
    /\ [](stdout + stderr <= MAX_OUTPUT_SIZE)
    /\ [][outputSize > MAX_OUTPUT_SIZE =>
            /\ outputSize' >= outputSize
            /\ stdout' = stdout
            /\ stderr' = stderr]_vars

\* C26 witness: a chunk went over the cap and was dropped, and a later chunk
\* small enough to fit beside what had been captured was dropped as well.
C26_Witness ==
    /\ proc = "running"
    /\ outputSize = MAX_OUTPUT_SIZE + MaxChunk
    /\ stdout + stderr = MAX_OUTPUT_SIZE - 1
    /\ stdout > 0
    /\ stderr > 0

\* C27: a spawned command is resolved with a result sooner or later, whatever
\* the process does; the timeout is pending only while the promise is, and
\* once it has fired or has been cancelled the promise is resolved.
C27_SpawnedCommandResolves ==
    /\ [](timer \in {"fired", "cleared"} => resolved)
    /\ [](resolved => result # NoResult /\ resolveCalls >= 1)
    /\ [](proc # "none" /\ ~resolved => timer = "armed")
    /\ (proc = "running") ~> (resolved /\ result # NoResult)

\* C27 witness: the process neither closed nor failed; the timeout resolved
\* the promise and killed the process.
C27_Witness ==
    /\ proc = "running"
    /\ ~errorFired
    /\ timer = "fired"
    /\ resolved
    /\ result = TimeoutResult
    /\ kills = 1

\* ------------------------------------------------- claims on path validation

\* A file command has been through validateFilePath.
Validated ==
    /\ cmdType \in FileTypes
    /\ IsObject(payload)
    /\ RequestedPath(payload, DefaultPath(cmdType)).kind # "null"
    /\ pc \notin {"idle", "validatePath"}

\* The command was refused by validateFilePath.
Denied == outcome = Return(Failure("Access denied"))

\* The resolved form of a path: canonical if realpath finds it, else the
\* canonical parent with the base name, else the absolute path as written.
ResolvedForm(fp) ==
    IF Realpath(fp).ok
    THEN Realpath(fp).p
    ELSE IF Realpath(PathDirname(PathResolve(fp))).ok
    THEN Realpath(PathDirname(PathResolve(fp))).p \o PathBasename(fp)
    ELSE PathResolve(fp)

\* A resolved form that is a blocked directory or lies below one.
IsBlockedForm(r) ==
    \E prefix \in BLOCKED_PATH_PREFIXES \cup getSensitiveHomePaths :
        \/ r = prefix
        \/ Len(r) > Len(prefix) /\ SubSeq(r, 1, Len(prefix)) = prefix

\* C28: validateFilePath refuses a path exactly when its resolved form is a
\* blocked directory or lies below one; so it refuses the blocked directory
\* itself, a link to a file in it and a new file below a link to it, and lets
\* through '/etcfoo' and a new file in a directory that does not exist.
C28_RefusedIffResolvedFormBlocked ==
    Validated =>
        /\ Denied <=> IsBlockedForm(ResolvedForm(filePath))
        /\ filePath \in {<<"etc">>, <<"tmp", "lnk">>, <<"tmp", "dirlnk", "new.txt">>,
                         <<"etc", "new">>, <<"home", ".ssh">>} => Denied
        /\ filePath \in {<<"etcfoo">>, <<"tmp", "nd", "new.txt">>,
                         <<"home", "notes">>, <<".", "a.txt">>} => ~Denied

\* C28 witness: a file_read of '/etcfoo' has passed validateFilePath and goes
\* on to fs.stat.
C28_Witness ==
    /\ Validated
    /\ cmdType = "file_read"
    /\ filePath = <<"etcfoo">>
    /\ pc = "stat"

\* ------------------------------------------------------ claims on file_read

\* C29: file_read reads a file only right after fs.stat reported a size within
\* MAX_FILE_READ_SIZE for it; a larger file gives 'File too large' and is
\* not read; a file of exactly the cap is read, whole; and a payload without a
\* path, or with an empty one, gives a failure without any call to the OS.
C29_FileReadChecksSizeFirst ==
    cmdType = "file_read" =>
        /\ \A i \in Called("readFile") :
              /\ i > 1
              /\ osCalls[i - 1].op = "stat"
              /\ osCalls[i - 1].path = osCalls[i].path
              /\ osCalls[i - 1].n \in 0..MAX_FILE_READ_SIZE
              /\ osCalls[i].n = osCalls[i - 1].n
        /\ \A i \in Called("stat") :
              /\ osCalls[i].n > MAX_FILE_READ_SIZE =>
                    /\ Done
                    /\ outcome = Return(Failure("File too large"))
                    /\ Called("readFile") = {}
              /\ osCalls[i].n = MAX_FILE_READ_SIZE =>
                    /\ pc \in {"readFile", "done"}
                    /\ Done => Called("readFile") # {}
                    /\ (Done /\ outcome.res.success) =>
                          outcome = Return(CommandResult(TRUE, Text("content"), ""))
        /\ (IsObject(payload) /\ parseString(payload.path) = Null /\ pc # "idle") =>
              /\ Done
              /\ outcome = Return(Failure("No file path specified"))
              /\ osCalls = <<>>

\* C29 witness: a file of exactly MAX_FILE_READ_SIZE bytes was read and its
\* content returned.
C29_Witness ==
    /\ cmdType = "file_read"
    /\ Done
    /\ outcome.res.success
    /\ Len(osCalls) = 2
    /\ osCalls[1].op = "stat"
    /\ osCalls[2].op = "readFile"
    /\ osCalls[2].n = MAX_FILE_READ_SIZE

\* ------------------------------------------------ SystemInfo of a heartbeat

\* The highest one-minute load average, in halves; the most CPUs; the most
\* memory.
MaxLoad == 4
MaxCpus == 2
MaxMem == 2

\* What os.loadavg()[0] (in halves), os.cpus().length, os.totalmem() and
\* os.freemem() may report.
HostReadings ==
    {h \in [load : 0..MaxLoad, cpus : 0..MaxCpus, total : 1..MaxMem, free : 0..MaxMem] :
        h.free <= h.total}

\* getSystemInfo(): cpuUsage is the load average per CPU as a percentage (0
\* without CPUs), memoryUsage the share of memory that is not free.
getSystemInfo(h) ==
    [sent |-> TRUE,
     cpuUsage |-> IF h.cpus > 0 THEN Ratio(h.load * 100, 2 * h.cpus) ELSE Ratio(0, 1),
     memoryUsage |-> Ratio((h.total - h.free) * 100, h.total)]

\* The load and the free memory of the host change.
HostChanges(h) ==
    /\ h # host
    /\ host' = h
    /\ UNCHANGED reported
    /\ UNCHANGED <<agentVars, shellVars, execVars, fleetVars, envVars, launchVars, fsVars>>

\* sendHeartbeat: the SystemInfo is computed and handed to client.heartbeat.
SendHeartbeat ==
    /\ reported' = getSystemInfo(host)
    /\ UNCHANGED host
    /\ UNCHANGED <<agentVars, shellVars, execVars, fleetVars, envVars, launchVars, fsVars>>

NextInfo ==
    \/ \E h \in HostReadings : HostChanges(h)
    \/ SendHeartbeat

SpecInfo == Init /\ [][NextInfo]_vars

\* lo <= r <= hi
Within(r, lo, hi) == lo * r.den <= r.num /\ r.num <= hi * r.den

\* C30: the SystemInfo of a heartbeat has cpuUsage and memoryUsage within 0
\* to 100, whatever the host reports.
C30_UsageWithinRange ==
    reported.sent =>
        /\ Within(reported.cpuUsage, 0, 100)
        /\ Within(reported.memoryUsage, 0, 100)

\* ------------------------------------------- claims on the working directory

\* cwd of executeShellCommand: the payload's, or the home directory.
CwdOf(pl) == Coalesce(parseString(pl.cwd), PathStr(homedir)).comps

\* The command, blocklist and timeout checks let the payload through.
EarlierChecksPass(pl) ==
    /\ IsGiven(pl.command)
    /\ pl.command.hits = {}
    /\ RawTimeout(pl) >= 2
    /\ RawTimeout(pl) <= 2 * MAX_CMD_TIMEOUT

\* C31: execute_command calls spawn only with the working directory that
\* validateFilePath let through, after the command, blocklist and timeout
\* checks; a working directory whose resolved form is under a blocked prefix
\* gives 'Access denied' (once the earlier checks have passed) and no spawn;
\* and no process ever runs in a place under a blocked prefix.
C31_SpawnOnlyInCheckedCwd ==
    (cmdType = "execute_command" /\ IsObject(payload)) =>
        /\ \A i \in Called("spawn") :
              /\ osCalls[i].path = CwdOf(payload)
              /\ ~IsBlockedForm(ResolvedForm(CwdOf(payload)))
              /\ EarlierChecksPass(payload)
        /\ IsBlockedForm(ResolvedForm(CwdOf(payload))) =>
              /\ Called("spawn") = {}
              /\ pc \in {"idle", "validateCwd", "done"}
              /\ (Done /\ EarlierChecksPass(payload)) => Denied
        /\ Denied => EarlierChecksPass(payload)
        /\ (Done /\ Called("spawn") # {}
                 /\ outcome \notin {Return(Failure("spawn error")),
                                    Return(Failure("spawn failed"))}) =>
              ~LandsInBlocked(CwdOf(payload))

\* C31 witness: a harmless command with a timeout in range and a working
\* directory that is a link to /etc is refused, and nothing was spawned.
C31_Witness ==
    /\ Done
    /\ cmdType = "execute_command"
    /\ IsObject(payload)
    /\ payload.command = CmdStr(FALSE, {})
    /\ payload.timeout = Num(2)
    /\ payload.cwd = PathStr(<<"tmp", "dirlnk">>)
    /\ Denied
    /\ osCalls = <<>>

\* ------------------------------------------------------ claims on the timeout

\* C32: the timeout a process is spawned with lies between 1 ms and
\* MAX_CMD_TIMEOUT; for execute_command it is the payload's when that is a
\* number and CMD_DEFAULT_TIMEOUT when it is absent, not a number or NaN; for
\* process_list it is PROCESS_LIST_TIMEOUT.  (Timeouts are in halves.)
C32_ArmedTimeoutInRange ==
    \A i \in Called("spawn") :
        /\ osCalls[i].n >= 2
        /\ osCalls[i].n <= 2 * MAX_CMD_TIMEOUT
        /\ cmdType \in {"execute_command", "process_list"}
        /\ cmdType = "execute_command" =>
              osCalls[i].n = IF IsNumber(payload.timeout)
                             THEN payload.timeout.n
                             ELSE 2 * CMD_DEFAULT_TIMEOUT
        /\ cmdType = "process_list" => osCalls[i].n = 2 * PROCESS_LIST_TIMEOUT

\* C32 witness: a command whose timeout is NaN was spawned with the default
\* timeout.
C32_Witness ==
    /\ Done
    /\ cmdType = "execute_command"
    /\ IsObject(payload)
    /\ payload.timeout = NaN
    /\ Called("spawn") = {1}
    /\ osCalls[1].n = 2 * CMD_DEFAULT_TIMEOUT

\* --------------------------------------------- claims on submitted results

\* C33 as stated: in a cycle, no failure is submitted for a command whose
\* execution returned a success, and at most one submitResult call per
\* command returns.
C33_NoFailureAfterSuccess ==
    \A c \in Slots :
        /\ \A k \in Issued(c) :
              (k.op \in SubmitOps /\ k.res = "fail") =>
                  [op |-> "executeCommand", cmd |-> k.cmd, res |-> "ok"] \notin Returned(c)
        /\ \A cmd \in CmdIds :
              Cardinality({k \in Returned(c) : k.op \in SubmitOps /\ k.cmd = cmd}) <= 1

\* C33: in a cycle, the result passed to the first submitResult is the one the
\* execution returned; a failure is submitted for a command whose execution
\* returned a success only by the catch block, after the submitResult that
\* carried the success threw; and at most one submitResult call per command
\* returns.
C33_FailureOnlyAfterSubmitThrew ==
    \A c \in Slots :
        /\ \A k \in Issued(c) :
              k.op = "submitResult" =>
                  /\ [op |-> "executeCommand", cmd |-> k.cmd, res |-> k.res] \in Returned(c)
                  /\ \A r \in {"ok", "fail"} :
                        [op |-> "executeCommand", cmd |-> k.cmd, res |-> r] \in Returned(c)
                            => r = k.res
        /\ \A k \in Issued(c) :
              (/\ k.op \in SubmitOps
               /\ k.res = "fail"
               /\ [op |-> "executeCommand", cmd |-> k.cmd, res |-> "ok"] \in Returned(c)) =>
                  /\ k.op = "fallbackSubmit"
                  /\ [op |-> "submitResult", cmd |-> k.cmd] \in Thrown(c)
                  /\ [op |-> "submitResult", cmd |-> k.cmd, res |-> "ok"] \notin Returned(c)
        /\ \A cmd \in CmdIds :
              Cardinality({k \in Returned(c) : k.op \in SubmitOps /\ k.cmd = cmd}) <= 1

\* C33 witness: a command was executed with success, the submitResult carrying
\* the success threw, and the failure the catch block submitted was accepted.
C33_Witness ==
    \E c \in Slots : \E cmd \in CmdIds :
        /\ [op |-> "executeCommand", cmd |-> cmd, res |-> "ok"] \in Returned(c)
        /\ [op |-> "submitResult", cmd |-> cmd] \in Thrown(c)
        /\ [op |-> "fallbackSubmit", cmd |-> cmd, res |-> "fail"] \in Returned(c)

\* ------------------------------------------- claims on file_write and links

\* C34: a file_write with createDirectories whose path can be resolved neither
\* itself nor by its parent directory (so that the absolute path as written is
\* what validateFilePath tests) makes no mkdir and no writeFile call that
\* lands under a blocked prefix.
C34_DeepNewPathStaysOutside ==
    (/\ cmdType = "file_write"
     /\ IsObject(payload)
     /\ payload.createDirectories
     /\ RequestedPath(payload, DefaultPath(cmdType)).kind = "string"
     /\ ~Realpath(RequestedPath(payload, DefaultPath(cmdType)).comps).ok
     /\ ~Realpath(PathDirname(PathResolve(
            RequestedPath(payload, DefaultPath(cmdType)).comps))).ok) =>
        \A i \in DOMAIN osCalls :
            osCalls[i].op \in {"mkdir", "writeFile"} => ~LandsInBlocked(osCalls[i].path)

\* ------------------------------------------ file handlers beside other commands

\* A shell command (run for another agent of the process, or by anything else
\* on the host) puts a symbolic link in place.
PlantLink(p) ==
    /\ p \in DOMAIN PlantTargets
    /\ p \notin planted
    /\ planted' = planted \cup {p}
    /\ UNCHANGED <<agentVars, shellVars, execVars, fleetVars, envVars, launchVars,
                   infoVars>>

\* A file command of one agent, step by step, while links are being planted.
NextRace ==
    \/ \E type \in FileTypes, pl \in FilePayloads : FileCommand(type, pl)
    \/ FileReadValidated
    \/ FileReadStat
    \/ FileReadFile
    \/ FileWriteValidated
    \/ FileWriteMkdir
    \/ FileWriteFile
    \/ FileListValidated
    \/ FileListReaddir
    \/ FileListStats
    \/ \E p \in DOMAIN PlantTargets : PlantLink(p)

SpecRace == Init /\ [][NextRace]_vars

\* The request paths that lead to no place under a blocked prefix as long as
\* no link has been planted.
CleanPaths ==
    {<<"etcfoo">>, <<"tmp">>, <<"tmp", "a.txt">>, <<"tmp", "new.txt">>,
     <<"tmp", "nd", "new.txt">>, <<"home", "notes">>, <<".">>, <<".", "a.txt">>}

\* C35: a file handler whose path led nowhere under a blocked prefix when the
\* command came in makes no call to the file system that lands under a
\* blocked prefix, whatever links are planted while it waits.
C35_OperatesOnWhatWasChecked ==
    [][(/\ cmdType \in FileTypes
        /\ filePath \in CleanPaths
        /\ Len(osCalls') > Len(osCalls)) =>
            ~LandsInBlocked(osCalls'[Len(osCalls')].path)]_vars

====
